---- MODULE Spec2Model ----
(***************************************************************************)
(* A model of the gap-detection and edge-scoring pipeline of jgpt:         *)
(*   src/src/analysis/pattern_analyzer.py   PatternAnalyzer                 *)
(*   src/src/analysis/edge_scorer.py        EdgeScorer                      *)
(*   src/src/api/flash_research_client.py   FlashResearchClient             *)
(*   src/src/scanners/gap_scanner.py        GapScanner                      *)
(*   src/src/main.py                        TradingBot.run_gap_scan,        *)
(*                                          run_continuous                  *)
(*   src/src/api/finnhub_client.py          FinnhubClient                   *)
(*   src/src/scanners/news_scanner.py       NewsScanner                     *)
(*   src/src/utils/market_hours.py          MarketHoursManager              *)
(*                                                                         *)
(* Conventions.  Percentages that the code keeps as floats are integers in *)
(* hundredths (gap_percent 1200 is 12.00%, volume_factor100 280 is 2.8)    *)
(* or in tenths where the name ends in 10.  A Python dict is a record,     *)
(* dict.get(k, d) is Get(d, k, default), Python's None is the record None, *)
(* and an operator that models code which raises returns Raise.            *)
(***************************************************************************)
EXTENDS Integers, Sequences, FiniteSets, TLC

VARIABLES
    paIn,      \* PatternAnalyzer: the arguments and collaborator answers of one analyze_gap_setup call
    paOut,     \* PatternAnalyzer: what analyze_gap_setup returned (NotCalled before the call)
    esIn,      \* EdgeScorer: the arguments of one calculate_edge_score call
    esOut,     \* EdgeScorer: what calculate_edge_score returned (NotCalled before the call)
    frClient,  \* FlashResearchClient: use_scraper, the scraper's session, the state of Python's global random
    frCalls,   \* FlashResearchClient: the analyze_symbol calls made so far, oldest first
    config,    \* TradingBot: which optional services are configured
    pc,        \* TradingBot.run_gap_scan: the position of the scan cycle
    market,    \* the quote source's answer for each symbol of the watchlist
    cursor,    \* run_gap_scan: index of the next symbol / gap / alert to treat
    gap_results,       \* GapScanner.scan_watchlist: the gaps found
    enhanced_results,  \* run_gap_scan: the analysed gaps
    alerts,    \* messaging sink: the alerts attempted so far, in order
    log,       \* what the scan cycle logged or let escape
    gsIn,      \* GapScanner: the symbol and the broker's answer of one scan_symbol call
    gsOut,     \* GapScanner: what scan_symbol returned (NotCalled before the call)
    fhClient,  \* FinnhubClient: enabled and call_timestamps
    fhCall,    \* FinnhubClient._make_request: the position of the call in progress
    fhGranted, \* FinnhubClient: the time of every request the rate limiter let through
    clock,     \* time.time(), in whole time units
    rcBot,     \* TradingBot: is_running, scan_interval and the scraper's browser
    rcRun,     \* TradingBot.run_continuous: its position and what happened so far
    plIn,      \* the analysis pipeline on one symbol: what the collaborators answer
    plRun,     \* the analysis pipeline on one symbol: its position and the results so far
    nsIn,      \* NewsScanner: the news source's answer to one scan_symbol_news call
    nsOut,     \* NewsScanner: what scan_symbol_news returned (NotCalled before the call)
    fmIn,      \* FinnhubClient: what get_company_metrics answers in one calculate_float_metrics call
    fmOut,     \* FinnhubClient: what calculate_float_metrics returned (NotCalled before the call)
    osIn,      \* TradingBot: the arguments of one _calculate_our_scoring call
    osOut,     \* TradingBot: what _calculate_our_scoring returned (NotCalled before the call)
    mhCfg,     \* MarketHoursManager: enable_premarket, enable_afterhours, weekend_pause
    mhNow,     \* the Eastern wall clock, in seconds since a Monday 00:00
    mhRun,     \* TradingBot.run_continuous under the market schedule: its position, scan_interval and the iterations made
    rqClient,  \* FlashResearchClient (API mode): authenticated and last_request_time
    rqCall,    \* FlashResearchClient._make_request: the position of the call in progress and the calls made
    rqGets,    \* FlashResearchClient: the time of every GET _make_request issued, oldest first
    rqNow      \* time.time() of the API client, in ticks

vars == <<paIn, paOut, esIn, esOut, frClient, frCalls, config, pc, market, cursor,
          gap_results, enhanced_results, alerts, log, gsIn, gsOut,
          fhClient, fhCall, fhGranted, clock, rcBot, rcRun, plIn, plRun,
          nsIn, nsOut, fmIn, fmOut,
          osIn, osOut,
          mhCfg, mhNow, mhRun,
          rqClient, rqCall, rqGets, rqNow>>

paVars == <<paIn, paOut>>
esVars == <<esIn, esOut>>
frVars == <<frClient, frCalls>>
cyVars == <<config, pc, market, cursor, gap_results, enhanced_results, alerts, log>>
gsVars == <<gsIn, gsOut>>
\* the subsystems modelled after the scan cycle
fhVars == <<fhClient, fhCall, fhGranted, clock>>
rcVars == <<rcBot, rcRun>>
plVars == <<plIn, plRun>>
nsVars == <<nsIn, nsOut>>
\* the subsystems modelled last
fmVars == <<fmIn, fmOut>>
osVars == <<osIn, osOut>>
mhVars == <<mhCfg, mhNow, mhRun>>
rqVars == <<rqClient, rqCall, rqGets, rqNow>>
auxVars == <<fmVars, osVars, mhVars, rqVars>>
restVars == <<gsVars, fhVars, rcVars, plVars, nsVars, auxVars>>

-----------------------------------------------------------------------------
(* Python values *)

None == [tag |-> "None"]
Raise == [tag |-> "Raise"]
NotCalled == [tag |-> "NotCalled"]

IsNone(d) == d = None
IsRaise(d) == d = Raise

\* dict.get(key, default)
Get(d, k, default) == IF k \in DOMAIN d THEN d[k] ELSE default

\* Python truthiness of an Optional[Dict]: None and {} are falsy
Truthy(d) == d # None /\ DOMAIN d # {}

Abs(x) == IF x < 0 THEN -x ELSE x
Min(a, b) == IF a < b THEN a ELSE b
Max(a, b) == IF a > b THEN a ELSE b

\* n percent in the model's hundredths
Pct(n) == n * 100

\* F applied to the value of v, which is computed once
With(v, F(_)) == CHOOSE r \in {F(x) : x \in {v}} : TRUE

-----------------------------------------------------------------------------
(* NewsScanner (src/src/scanners/news_scanner.py) *)

\* A news item of the feed: id names the item, len is the length of its
\* headline, pos / neg count the catalyst / negative keywords found in its
\* headline and summary.
RECURSIVE ScoreItems(_)
ScoreItems(items) ==
    IF items = <<>> THEN 0
    ELSE 10 * Head(items).pos - 15 * Head(items).neg + ScoreItems(Tail(items))

\* key_headlines: one entry per catalyst keyword hit while fewer than 3 are
\* held, each the item's headline cut to 100 characters
RECURSIVE KeyHeadlines(_, _)
KeyHeadlines(items, held) ==
    IF items = <<>> THEN held
    ELSE LET it == Head(items)
             room == 3 - Len(held)
             n == Min(it.pos, room)
             entry == [id |-> it.id, len |-> Min(it.len, 100)]
         IN KeyHeadlines(Tail(items), held \o [i \in 1..n |-> entry])

NoNewsResult ==
    [news_count |-> 0, catalyst_score |-> 0, has_catalyst |-> FALSE, key_headlines |-> <<>>]

\* scan_symbol_news; feed is the news source's answer: the request raises,
\* answers with another status than 200, or answers 200 with a list of items
ScanSymbolNews(feed) ==
    IF feed.status = "raise" THEN None
    ELSE IF feed.status # "ok" \/ feed.items = <<>> THEN NoNewsResult
    ELSE LET recent == SubSeq(feed.items, 1, Min(5, Len(feed.items)))
             catalyst_score == ScoreItems(recent)
         IN [news_count |-> Len(feed.items),
             catalyst_score |-> catalyst_score,
             has_catalyst |-> catalyst_score >= 20,
             key_headlines |-> KeyHeadlines(recent, <<>>)]

-----------------------------------------------------------------------------
(* FlashResearchClient, the API client (src/src/api/flash_research_client.py) *)

\* _calculate_gap_edge_score
CalculateGapEdgeScore(gap_stats) ==
    LET freq == IF gap_stats.gap_frequency > 15 THEN 15
                ELSE IF gap_stats.gap_frequency > 10 THEN 10
                ELSE IF gap_stats.gap_frequency > 5 THEN 5 ELSE 0
        cont == IF gap_stats.continuation_rate > 70 THEN 20
                ELSE IF gap_stats.continuation_rate > 60 THEN 15
                ELSE IF gap_stats.continuation_rate > 50 THEN 10 ELSE 0
        fill == IF gap_stats.gap_fill_rate < 30 THEN 15
                ELSE IF gap_stats.gap_fill_rate < 50 THEN 10
                ELSE IF gap_stats.gap_fill_rate > 80 THEN -10 ELSE 0
        vol  == IF gap_stats.volume_factor100 > 300 THEN 10
                ELSE IF gap_stats.volume_factor100 > 200 THEN 5 ELSE 0
        size == IF gap_stats.avg_gap_size10 > 150 THEN 10
                ELSE IF gap_stats.avg_gap_size10 > 100 THEN 5 ELSE 0
    IN Max(0, Min(100, 50 + freq + cont + fill + vol + size))

\* _parse_gap_statistics: data is the JSON of stats/gaps
ParseGapStatistics(data) ==
    LET gap_stats ==
            [total_gaps |-> Get(data, "total_gaps", 0),
             gap_frequency |-> Get(data, "gap_frequency_percent", 0),
             avg_gap_size10 |-> Get(data, "average_gap_percent10", 0),
             gap_fill_rate |-> Get(data, "gap_fill_rate_percent", 0),
             continuation_rate |-> Get(data, "continuation_rate_percent", 0),
             volume_factor100 |-> Get(data, "avg_volume_multiplier100", 100)]
    IN [total_gaps |-> gap_stats.total_gaps,
        gap_frequency |-> gap_stats.gap_frequency,
        avg_gap_size10 |-> gap_stats.avg_gap_size10,
        gap_fill_rate |-> gap_stats.gap_fill_rate,
        continuation_rate |-> gap_stats.continuation_rate,
        volume_factor100 |-> gap_stats.volume_factor100,
        gap_edge_score |-> CalculateGapEdgeScore(gap_stats)]

\* _parse_float_analysis
ParseFloatAnalysis(data) ==
    [float_shares |-> Get(data, "float_shares", 0),
     squeeze_potential_score |-> Get(data, "squeeze_score", 0),
     liquidity_score |-> Get(data, "liquidity_score", 0)]

\* _parse_performance_metrics
ParsePerformanceMetrics(data) ==
    [win_rate_percent |-> Get(data, "win_rate", 0),
     momentum_score |-> Get(data, "momentum_score", 50)]

\* get_gap_statistics / get_float_analysis / get_performance_metrics: data is
\* what _make_request returned (None when the request failed); "if data:"
GetGapStatistics(data) == IF Truthy(data) THEN ParseGapStatistics(data) ELSE None
GetFloatAnalysis(data) == IF Truthy(data) THEN ParseFloatAnalysis(data) ELSE None
GetPerformanceMetrics(data) == IF Truthy(data) THEN ParsePerformanceMetrics(data) ELSE None

\* _calculate_overall_edge_score; the running score is the exact fraction n/d
CalculateOverallEdgeScore(gap_stats, float_analysis, performance_metrics) ==
    LET s0 == [n |-> 50, d |-> 1]
        s1 == IF Truthy(gap_stats)
              THEN [n |-> s0.n + Get(gap_stats, "gap_edge_score", 50) * s0.d, d |-> 2 * s0.d]
              ELSE s0
        s2 == IF Truthy(float_analysis)
              THEN [n |-> 4 * s1.n + (Get(float_analysis, "squeeze_potential_score", 50)
                                      + Get(float_analysis, "liquidity_score", 50)) * s1.d,
                    d |-> 6 * s1.d]
              ELSE s1
        s3 == IF Truthy(performance_metrics)
              THEN [n |-> 6 * s2.n + (Get(performance_metrics, "win_rate_percent", 50)
                                      + Get(performance_metrics, "momentum_score", 50)) * s2.d,
                    d |-> 8 * s2.d]
              ELSE s2
    IN s3.n \div s3.d

\* get_enhanced_analysis; answers holds what _make_request returned for
\* stats/gaps, stats/float and stats/performance
GetEnhancedAnalysis(answers) ==
    LET gap_stats == GetGapStatistics(answers.gaps)
        float_analysis == GetFloatAnalysis(answers.float)
        performance_metrics == GetPerformanceMetrics(answers.performance)
    IN [data_source |-> "flash_research",
        gap_statistics |-> gap_stats,
        float_analysis |-> float_analysis,
        performance_metrics |-> performance_metrics,
        overall_edge_score |->
            CalculateOverallEdgeScore(gap_stats, float_analysis, performance_metrics)]

-----------------------------------------------------------------------------
(* PatternAnalyzer (src/src/analysis/pattern_analyzer.py) *)

microfloat_threshold == 5000000
nanofloat_threshold == 1000000
mega_gap_threshold == 3000

\* _analyze_float_characteristics
AnalyzeFloatCharacteristics(float_data) ==
    IF ~Truthy(float_data)
    THEN [category |-> "Unknown", is_microfloat |-> FALSE, is_nanofloat |-> FALSE,
          squeeze_potential |-> 0, float_shares |-> 0]
    ELSE LET float_shares == Get(float_data, "float_shares", 0)
             is_nanofloat == float_shares < nanofloat_threshold
             is_microfloat == float_shares < microfloat_threshold
             squeeze_potential ==
                 IF is_nanofloat THEN 95
                 ELSE IF is_microfloat THEN 80
                 ELSE IF float_shares < 10000000 THEN 60
                 ELSE IF float_shares < 25000000 THEN 40
                 ELSE 20
         IN [category |-> Get(float_data, "float_category", "Unknown"),
             is_microfloat |-> is_microfloat, is_nanofloat |-> is_nanofloat,
             squeeze_potential |-> squeeze_potential, float_shares |-> float_shares]

\* _analyze_news_catalyst
AnalyzeNewsCatalyst(news_data) ==
    IF ~Truthy(news_data) \/ ~Get(news_data, "has_catalyst", FALSE)
    THEN [has_catalyst |-> FALSE, catalyst_strength |-> 0, catalyst_type |-> "None",
          headline_count |-> 0]
    ELSE LET catalyst_score == Get(news_data, "catalyst_score", 0)
             strong == catalyst_score >= 50
             moderate == catalyst_score >= 30
             weak == catalyst_score >= 20
         IN [has_catalyst |-> TRUE,
             catalyst_strength |-> IF strong THEN 90 ELSE IF moderate THEN 70
                                   ELSE IF weak THEN 50 ELSE 20,
             catalyst_type |-> IF strong THEN "Strong" ELSE IF moderate THEN "Moderate"
                               ELSE IF weak THEN "Weak" ELSE "Minimal",
             headline_count |-> Len(Get(news_data, "key_headlines", <<>>)),
             catalyst_score |-> catalyst_score]

\* _analyze_flash_statistics.  flash_data.get('gap_statistics', {}) returns
\* None when the key holds None, and the .get on it then raises.
AnalyzeFlashStatistics(flash_data) ==
    IF ~Truthy(flash_data) \/ "error" \in DOMAIN flash_data
    THEN [has_flash_data |-> FALSE, gap_edge_score |-> 50,
          historical_performance |-> "Unknown", gap_continuation_rate |-> 50,
          gap_fill_rate |-> 50, volume_factor100 |-> 100,
          statistical_edge |-> "Insufficient data"]
    ELSE LET gap_stats == flash_data.gap_statistics
             performance_metrics == flash_data.performance_metrics
         IN IF IsNone(performance_metrics) \/ IsNone(gap_stats) THEN Raise
            ELSE LET win_rate == Get(performance_metrics, "win_rate_percent", 50)
                     continuation_rate == Get(gap_stats, "continuation_rate", 50)
                     gap_fill_rate == Get(gap_stats, "gap_fill_rate", 50)
                 IN [has_flash_data |-> TRUE,
                     gap_edge_score |-> Get(gap_stats, "gap_edge_score", 50),
                     historical_performance |->
                         IF win_rate >= 70 THEN "Excellent" ELSE IF win_rate >= 60 THEN "Good"
                         ELSE IF win_rate >= 50 THEN "Average" ELSE "Poor",
                     gap_continuation_rate |-> continuation_rate,
                     gap_fill_rate |-> gap_fill_rate,
                     volume_factor100 |-> Get(gap_stats, "volume_factor100", 100),
                     statistical_edge |->
                         IF continuation_rate > 70 /\ gap_fill_rate < 40
                         THEN "Strong bullish momentum"
                         ELSE IF continuation_rate > 60 /\ gap_fill_rate < 50
                         THEN "Moderate momentum bias"
                         ELSE IF gap_fill_rate > 80 THEN "Gap fill tendency"
                         ELSE "Neutral statistical profile",
                     total_gaps_analyzed |-> Get(gap_stats, "total_gaps", 0),
                     avg_gap_size10 |-> Get(gap_stats, "avg_gap_size10", 0),
                     overall_edge_score |-> Get(flash_data, "overall_edge_score", 50)]

\* _determine_pattern_type with the Mega Gap test moved to the front
DeterminePatternTypeMegaFirst(gap_percent, gap_direction, float_analysis, news_analysis, volume, flash_analysis) ==
    IF gap_percent >= mega_gap_threshold
    THEN "Mega Gap"
    ELSE IF (float_analysis.is_nanofloat /\ gap_percent >= Pct(10))
            \/ (float_analysis.is_microfloat /\ gap_percent >= Pct(15))
    THEN "Float Squeeze"
    ELSE IF news_analysis.has_catalyst /\ news_analysis.catalyst_strength >= 70
            /\ gap_percent >= Pct(8)
    THEN "News Catalyst"
    ELSE IF flash_analysis.has_flash_data /\ flash_analysis.gap_edge_score >= 75
            /\ gap_percent >= Pct(8)
    THEN "Statistical Edge"
    ELSE IF gap_percent >= Pct(10) /\ volume > 50000
    THEN "Gap & Go"
    ELSE IF float_analysis.is_microfloat /\ gap_percent >= Pct(5)
    THEN "Micro Float"
    ELSE "Standard Gap"

\* _determine_pattern_type; gap_percent is the absolute gap
DeterminePatternType(gap_percent, gap_direction, float_analysis, news_analysis, volume, flash_analysis) ==
    IF (float_analysis.is_nanofloat /\ gap_percent >= Pct(10))
       \/ (float_analysis.is_microfloat /\ gap_percent >= Pct(15))
    THEN "Float Squeeze"
    ELSE IF news_analysis.has_catalyst /\ news_analysis.catalyst_strength >= 70
            /\ gap_percent >= Pct(8)
    THEN "News Catalyst"
    ELSE IF gap_percent >= mega_gap_threshold
    THEN "Mega Gap"
    ELSE IF flash_analysis.has_flash_data /\ flash_analysis.gap_edge_score >= 75
            /\ gap_percent >= Pct(8)
    THEN "Statistical Edge"
    ELSE IF gap_percent >= Pct(10) /\ volume > 50000
    THEN "Gap & Go"
    ELSE IF float_analysis.is_microfloat /\ gap_percent >= Pct(5)
    THEN "Micro Float"
    ELSE "Standard Gap"

\* _calculate_setup_quality
CalculateSetupQuality(gap_percent, float_analysis, news_analysis, volume, flash_analysis) ==
    LET gap_pts == IF gap_percent >= Pct(30) THEN 40 ELSE IF gap_percent >= Pct(20) THEN 35
                   ELSE IF gap_percent >= Pct(15) THEN 30 ELSE IF gap_percent >= Pct(10) THEN 25
                   ELSE IF gap_percent >= Pct(7) THEN 20 ELSE IF gap_percent >= Pct(5) THEN 15
                   ELSE 10
        float_pts == (Get(float_analysis, "squeeze_potential", 0) * 3) \div 10
        news_pts == IF news_analysis.has_catalyst
                    THEN (Get(news_analysis, "catalyst_strength", 0) * 2) \div 10 ELSE 0
        vol_pts == IF volume > 500000 THEN 10 ELSE IF volume > 200000 THEN 7
                   ELSE IF volume > 100000 THEN 5 ELSE IF volume > 50000 THEN 3 ELSE 0
        flash_edge_score == Get(flash_analysis, "gap_edge_score", 50)
        continuation_rate == Get(flash_analysis, "gap_continuation_rate", 50)
        flash_pts == IF ~flash_analysis.has_flash_data THEN 0
                     ELSE (IF flash_edge_score >= 80 THEN 15 ELSE IF flash_edge_score >= 70 THEN 12
                           ELSE IF flash_edge_score >= 60 THEN 8
                           ELSE IF flash_edge_score >= 55 THEN 5 ELSE 0)
                          + (IF continuation_rate > 75 THEN 3
                             ELSE IF continuation_rate > 65 THEN 2 ELSE 0)
    IN Min(gap_pts + float_pts + news_pts + vol_pts + flash_pts, 100)

\* _assess_risk_level
AssessRiskLevel(gap_percent, float_analysis, news_analysis, flash_analysis) ==
    LET gap_risk == IF gap_percent >= Pct(30) THEN 3 ELSE IF gap_percent >= Pct(20) THEN 2
                    ELSE IF gap_percent >= Pct(10) THEN 1 ELSE 0
        float_risk == IF float_analysis.is_nanofloat THEN 2
                      ELSE IF float_analysis.is_microfloat THEN 1 ELSE 0
        news_risk == IF news_analysis.has_catalyst THEN 1 ELSE 0
        edge_score == Get(flash_analysis, "gap_edge_score", 50)
        continuation_rate == Get(flash_analysis, "gap_continuation_rate", 50)
        flash_risk == IF ~flash_analysis.has_flash_data THEN 0
                      ELSE IF edge_score >= 80 /\ continuation_rate > 75 THEN -2
                      ELSE IF edge_score >= 70 THEN -1 ELSE 0
        risk_score == gap_risk + float_risk + news_risk + flash_risk
    IN IF risk_score >= 4 THEN "High" ELSE IF risk_score >= 2 THEN "Medium" ELSE "Low"

\* _classify_pattern_local (the playbook text and key_factors are left out)
ClassifyPatternLocal(gap_data, float_data, news_data, flash_data) ==
    LET gap_percent == Abs(gap_data.gap_percent)
        volume == Get(gap_data, "volume", 0)
        float_analysis == AnalyzeFloatCharacteristics(float_data)
        news_analysis == AnalyzeNewsCatalyst(news_data)
        flash_analysis == AnalyzeFlashStatistics(flash_data)
    IN IF IsRaise(flash_analysis) THEN Raise
       ELSE LET setup_quality == CalculateSetupQuality(gap_percent, float_analysis,
                                                       news_analysis, volume, flash_analysis)
            IN [pattern_type |-> DeterminePatternType(gap_percent, gap_data.gap_direction,
                                    float_analysis, news_analysis, volume, flash_analysis),
                setup_quality |-> setup_quality,
                float_analysis |-> float_analysis,
                news_analysis |-> news_analysis,
                flash_analysis |-> flash_analysis,
                confidence |-> Min(setup_quality + 10, 100),
                risk_level |-> AssessRiskLevel(gap_percent, float_analysis, news_analysis,
                                               flash_analysis)]

\* _combine_analysis
CombineAnalysis(local_analysis, ai_analysis, gap_data, flash_data) ==
    IF ~Truthy(ai_analysis)
    THEN [symbol |-> gap_data.symbol, analysis_source |-> "local",
          pattern_type |-> local_analysis.pattern_type,
          setup_quality |-> local_analysis.setup_quality,
          float_analysis |-> local_analysis.float_analysis,
          news_analysis |-> local_analysis.news_analysis,
          flash_analysis |-> local_analysis.flash_analysis,
          confidence |-> local_analysis.confidence,
          risk_level |-> local_analysis.risk_level]
    ELSE [symbol |-> gap_data.symbol, analysis_source |-> "ai_enhanced",
          pattern_type |-> Get(ai_analysis, "pattern_type", local_analysis.pattern_type),
          confidence |-> Get(ai_analysis, "confidence", local_analysis.confidence),
          risk_level |-> Get(ai_analysis, "risk_level", local_analysis.risk_level),
          setup_quality |->
              (Get(ai_analysis, "setup_quality", 0) + local_analysis.setup_quality) \div 2,
          float_analysis |-> local_analysis.float_analysis,
          news_analysis |-> local_analysis.news_analysis]

\* _create_fallback_analysis
CreateFallbackAnalysis(gap_data) ==
    [symbol |-> gap_data.symbol, analysis_source |-> "fallback",
     pattern_type |-> "Analysis Error", setup_quality |-> 50, confidence |-> 25,
     risk_level |-> "Medium"]

\* analyze_gap_setup as a function of its arguments and of what its
\* collaborators answer: the news feed, the three Flash Research requests,
\* and the AI client (ai_enabled, and its answer when enabled)
AnalyzeGapSetupResult(in) ==
    LET news_data == ScanSymbolNews(in.feed)
        enhanced == GetEnhancedAnalysis(in.flash_answers)
        flash_data == IF Truthy(enhanced) /\ "error" \notin DOMAIN enhanced
                      THEN enhanced ELSE None
        local == ClassifyPatternLocal(in.gap_data, in.float_data, news_data, flash_data)
        ai_analysis == IF in.ai_enabled THEN in.ai_answer ELSE None
    IN IF IsRaise(local) THEN CreateFallbackAnalysis(in.gap_data)
       ELSE CombineAnalysis(local, ai_analysis, in.gap_data, flash_data)

-----------------------------------------------------------------------------
(* One analyze_gap_setup call: the inputs it is checked on *)

PaGapPercents == {-2408, 400, 500, 799, 800, 1000, 1200, 1499, 1500, 2999, 3000}
PaVolumes == {50000, 50001}

PaGapData ==
    {[symbol |-> "XYZ", gap_percent |-> g, volume |-> v,
      gap_direction |-> IF g > 0 THEN "UP" ELSE "DOWN"] : g \in PaGapPercents, v \in PaVolumes}

\* float_data of FloatScreener.screen_symbol: absent, without a float_shares
\* key, or with one
PaFloatData ==
    {None, [float_category |-> "unknown"]}
    \cup {[float_shares |-> n, float_category |-> "known"] :
             n \in {999999, 1000000, 3000000, 4999999, 5000000}}

NewsItem(i, p, n) == [id |-> i, len |-> 120, pos |-> p, neg |-> n]

PaFeeds ==
    {[status |-> "raise"], [status |-> "http_error"],
     [status |-> "ok", items |-> <<>>],
     [status |-> "ok", items |-> <<NewsItem(1, 2, 0)>>],
     [status |-> "ok", items |-> <<NewsItem(1, 3, 0)>>],
     [status |-> "ok", items |-> <<NewsItem(1, 3, 0), NewsItem(2, 2, 0)>>],
     [status |-> "ok", items |-> <<NewsItem(1, 3, 0), NewsItem(2, 0, 1)>>]}

\* JSON of stats/gaps: a weak and a strong history
RawGapsWeak ==
    [total_gaps |-> 12, gap_frequency_percent |-> 4, average_gap_percent10 |-> 60,
     gap_fill_rate_percent |-> 85, continuation_rate_percent |-> 40,
     avg_volume_multiplier100 |-> 120]
RawGapsStrong ==
    [total_gaps |-> 45, gap_frequency_percent |-> 12, average_gap_percent10 |-> 185,
     gap_fill_rate_percent |-> 35, continuation_rate_percent |-> 72,
     avg_volume_multiplier100 |-> 280]
RawFloat == [float_shares |-> 3200000, squeeze_score |-> 70, liquidity_score |-> 40]
RawPerformance == [win_rate |-> 65, momentum_score |-> 60]

PaFlashAnswers ==
    [gaps : {None, RawGapsWeak, RawGapsStrong},
     float : {None, RawFloat},
     performance : {None, RawPerformance}]

\* what OpenAIClient.analyze_trading_pattern returns when enabled
PaAiAnswers ==
    {None,
     [pattern_type |-> "Gap & Go", setup_quality |-> 80, confidence |-> 70,
      risk_level |-> "High"]}

PaInputs ==
    [gap_data : PaGapData, float_data : PaFloatData, feed : PaFeeds,
     flash_answers : PaFlashAnswers, ai_enabled : BOOLEAN, ai_answer : PaAiAnswers]

\* PatternAnalyzer.analyze_gap_setup, the whole call
AnalyzeGapSetup ==
    /\ paOut = NotCalled
    /\ paOut' = AnalyzeGapSetupResult(paIn)
    /\ UNCHANGED <<restVars, paIn, esVars, frVars, cyVars>>

-----------------------------------------------------------------------------
(* EdgeScorer (src/src/analysis/edge_scorer.py).  A score s is kept as the  *)
(* integer 10*s (name ending in 10); total_score as 1000*total_score.       *)

\* a score returned as computed, without min/max
Unclamped10(score10) == score10

\* min(100.0, max(0.0, score))
Clamp10(score10) == Min(1000, Max(0, score10))

\* a .get that answers the default on None instead of raising
GetNeverRaises(d) == FALSE

\* d.get(...) raises AttributeError when d is None
GetRaises(d) == IsNone(d)

\* a historical component that is full marks whatever the data
ScoreFlashResearchEdgeFull(flash_analysis) == 1000

\* _score_flash_research_edge, for a flash_analysis on which .get does not raise
ScoreFlashResearchEdge(flash_analysis) ==
    IF ~Get(flash_analysis, "has_flash_data", FALSE) THEN 500
    ELSE LET gap_edge_score == Get(flash_analysis, "gap_edge_score", 50)
             continuation_rate == Get(flash_analysis, "gap_continuation_rate", 50)
             gap_fill_rate == Get(flash_analysis, "gap_fill_rate", 50)
             volume_factor100 == Get(flash_analysis, "volume_factor100", 100)
             overall_edge == Get(flash_analysis, "overall_edge_score", 50)
             cont == IF continuation_rate > 80 THEN 15 ELSE IF continuation_rate > 70 THEN 10
                     ELSE IF continuation_rate > 60 THEN 5 ELSE 0
             fill == IF gap_fill_rate < 20 THEN 10 ELSE IF gap_fill_rate < 30 THEN 5
                     ELSE IF gap_fill_rate > 80 THEN -10 ELSE 0
             vol == IF volume_factor100 > 400 THEN 8 ELSE IF volume_factor100 > 250 THEN 5
                    ELSE IF volume_factor100 > 150 THEN 2 ELSE 0
             perf == IF overall_edge > 75 THEN 5 ELSE IF overall_edge > 65 THEN 3 ELSE 0
         IN Clamp10(10 * (gap_edge_score + cont + fill + vol + perf))

\* _score_gap_characteristics
ScoreGapCharacteristics(gap_data) ==
    LET gap_percent == Abs(Get(gap_data, "gap_percent", 0))
        gap_direction == Get(gap_data, "gap_direction", "UP")
        volume == Get(gap_data, "volume", 0)
        size == IF gap_percent >= Pct(30) THEN 25 ELSE IF gap_percent >= Pct(20) THEN 20
                ELSE IF gap_percent >= Pct(15) THEN 15 ELSE IF gap_percent >= Pct(10) THEN 10
                ELSE IF gap_percent >= Pct(7) THEN 5 ELSE IF gap_percent >= Pct(5) THEN 2
                ELSE -10
        dir == IF gap_direction = "UP" THEN 2 ELSE 0
        vol == IF volume > 1000000 THEN 15 ELSE IF volume > 500000 THEN 10
               ELSE IF volume > 200000 THEN 5 ELSE IF volume > 100000 THEN 2
               ELSE IF volume < 10000 THEN -5 ELSE 0
    IN Clamp10(10 * (50 + size + dir + vol))

\* _score_float_dynamics
ScoreFloatDynamics(float_analysis, gap_data) ==
    IF ~Truthy(float_analysis) THEN 500
    ELSE LET size == IF Get(float_analysis, "is_nanofloat", FALSE) THEN 30
                     ELSE IF Get(float_analysis, "is_microfloat", FALSE) THEN 20 ELSE 0
             squeeze_potential == Get(float_analysis, "squeeze_potential", 0)
             squeeze == IF squeeze_potential > 90 THEN 15 ELSE IF squeeze_potential > 80 THEN 10
                        ELSE IF squeeze_potential > 70 THEN 5 ELSE 0
             float_shares == Get(float_analysis, "float_shares", 0)
             volume == Get(gap_data, "volume", 0)
             turnover == IF float_shares <= 0 THEN 0
                         ELSE IF 10 * volume > 5 * float_shares THEN 15
                         ELSE IF 10 * volume > 3 * float_shares THEN 10
                         ELSE IF 10 * volume > float_shares THEN 5 ELSE 0
         IN Clamp10(10 * (50 + size + squeeze + turnover))

\* _score_ai_pattern_recognition
ScoreAiPatternRecognition(ai_analysis) ==
    IF ~Truthy(ai_analysis) THEN 500
    ELSE LET setup_quality == Get(ai_analysis, "setup_quality", 50)
             confidence == Get(ai_analysis, "confidence", 50)
             pattern_type == Get(ai_analysis, "pattern_type", "")
             bonus == IF pattern_type \in {"Float Squeeze", "Statistical Edge"} THEN 10
                      ELSE IF pattern_type \in {"News Catalyst", "Mega Gap"} THEN 5 ELSE 0
         IN Clamp10(7 * setup_quality + 3 * confidence + 10 * bonus)

\* _score_news_catalyst, for a news_analysis on which .get does not raise
ScoreNewsCatalyst(news_analysis) ==
    IF ~Get(news_analysis, "has_catalyst", FALSE) THEN 500
    ELSE LET catalyst_strength == Get(news_analysis, "catalyst_strength", 0)
             catalyst_type == Get(news_analysis, "catalyst_type", "Unknown")
             bonus == IF catalyst_type = "Strong" THEN 10
                      ELSE IF catalyst_type = "Moderate" THEN 5 ELSE 0
         IN Clamp10(10 * (catalyst_strength + bonus))

\* _calculate_confidence
CalculateConfidence(flash_analysis, float_analysis, news_analysis, ai_analysis) ==
         LET total_gaps == Get(flash_analysis, "total_gaps_analyzed", 0)
             flash == IF ~Get(flash_analysis, "has_flash_data", FALSE) THEN 0
                      ELSE IF total_gaps > 50 THEN 40 ELSE IF total_gaps > 20 THEN 30
                      ELSE IF total_gaps > 10 THEN 20 ELSE 10
             float == IF Truthy(float_analysis) /\ Get(float_analysis, "float_shares", 0) > 0
                      THEN 20 ELSE 0
             ai == IF Truthy(ai_analysis) /\ Get(ai_analysis, "confidence", 0) > 60 THEN 20
                   ELSE IF Truthy(ai_analysis) THEN 10 ELSE 0
             news == IF Get(news_analysis, "has_catalyst", FALSE) THEN 10 ELSE 0
             confidence_score == flash + float + ai + news + 10
         IN IF confidence_score >= 80 THEN "Very High"
            ELSE IF confidence_score >= 60 THEN "High"
            ELSE IF confidence_score >= 40 THEN "Medium"
            ELSE "Low"

\* _classify_edge; score1000 is 1000*score, the multiplier is in hundredths
ClassifyEdge(score1000, confidence) ==
    LET mult == IF confidence = "Very High" THEN 100 ELSE IF confidence = "High" THEN 95
                ELSE IF confidence = "Medium" THEN 85 ELSE 70
        adjusted == score1000 * mult
    IN IF adjusted >= 85 * 100000 THEN "Exceptional Edge"
       ELSE IF adjusted >= 75 * 100000 THEN "Strong Edge"
       ELSE IF adjusted >= 65 * 100000 THEN "Good Edge"
       ELSE IF adjusted >= 55 * 100000 THEN "Modest Edge"
       ELSE IF adjusted >= 45 * 100000 THEN "Neutral"
       ELSE "Negative Edge"

\* _generate_edge_recommendations (the texts without their numbers)
GenerateEdgeRecommendations(score1000, confidence, flash_analysis, gap_data) ==
    LET by_score ==
            IF score1000 >= 80000
            THEN <<"High probability setup - consider larger position size",
                   "Strong statistical backing supports aggressive entry">>
            ELSE IF score1000 >= 70000
            THEN <<"Good edge detected - standard position sizing appropriate">>
            ELSE IF score1000 >= 60000
            THEN <<"Modest edge - use conservative position sizing">>
            ELSE <<"Limited edge - consider passing or very small position">>
        has == Get(flash_analysis, "has_flash_data", FALSE)
        continuation_rate == Get(flash_analysis, "gap_continuation_rate", 50)
        gap_fill_rate == Get(flash_analysis, "gap_fill_rate", 50)
        by_cont == IF has /\ continuation_rate > 75
                   THEN <<"Strong historical continuation rate">> ELSE <<>>
        by_fill == IF has /\ gap_fill_rate < 30
                   THEN <<"Low gap fill tendency supports momentum plays">>
                   ELSE IF has /\ gap_fill_rate > 80
                   THEN <<"High gap fill risk - watch for reversal">> ELSE <<>>
        by_conf == IF confidence \in {"Very High", "High"}
                   THEN <<"High confidence in analysis - reliable data backing">>
                   ELSE IF confidence = "Medium"
                   THEN <<"Moderate confidence - monitor carefully">>
                   ELSE <<"Low confidence - trade with extreme caution">>
    IN by_score \o by_cont \o by_fill \o by_conf

\* round(x, 1) of a value held in thousandths, as tenths
Round1(x1000) == (x1000 + 50) \div 100

\* a fallback that reports zeros instead of the neutral 50
CreateFallbackEdgeScoreZero(gap_data) ==
    [symbol |-> Get(gap_data, "symbol", "Unknown"),
     total_edge_score10 |-> 0,
     confidence_level |-> "Low",
     edge_classification |-> "Analysis Error",
     component_scores |->
         [flash_research |-> 0, gap_characteristics |-> 0, float_dynamics |-> 0,
          ai_pattern |-> 0, news_catalyst |-> 0],
     trading_recommendations |-> <<"Analysis error - use standard risk management">>]

\* _create_fallback_edge_score
CreateFallbackEdgeScore(gap_data) ==
    [symbol |-> Get(gap_data, "symbol", "Unknown"),
     total_edge_score10 |-> 500,
     confidence_level |-> "Low",
     edge_classification |-> "Analysis Error",
     component_scores |->
         [flash_research |-> 500, gap_characteristics |-> 500, float_dynamics |-> 500,
          ai_pattern |-> 500, news_catalyst |-> 500],
     trading_recommendations |-> <<"Analysis error - use standard risk management">>]

\* calculate_edge_score: the try block, and the except that returns the
\* fallback when a step raised (the first .get on a None argument)
CalculateEdgeScore(gap_data, flash_analysis, float_analysis, news_analysis, ai_analysis) ==
    LET flash_score == ScoreFlashResearchEdge(flash_analysis)
        gap_score == ScoreGapCharacteristics(gap_data)
        float_score == ScoreFloatDynamics(float_analysis, gap_data)
        ai_score == ScoreAiPatternRecognition(ai_analysis)
        news_score == ScoreNewsCatalyst(news_analysis)
    IN IF GetRaises(flash_analysis) \/ GetRaises(news_analysis)
       THEN CreateFallbackEdgeScore(gap_data)
       ELSE LET total_score == 40 * flash_score + 25 * gap_score + 20 * float_score
                               + 10 * ai_score + 5 * news_score
                confidence == CalculateConfidence(flash_analysis, float_analysis,
                                                  news_analysis, ai_analysis)
            IN [symbol |-> Get(gap_data, "symbol", "Unknown"),
                total_edge_score10 |-> Round1(total_score),
                confidence_level |-> confidence,
                edge_classification |-> ClassifyEdge(total_score, confidence),
                component_scores |->
                    [flash_research |-> flash_score, gap_characteristics |-> gap_score,
                     float_dynamics |-> float_score, ai_pattern |-> ai_score,
                     news_catalyst |-> news_score],
                trading_recommendations |->
                    GenerateEdgeRecommendations(total_score, confidence, flash_analysis,
                                                gap_data)]

-----------------------------------------------------------------------------
(* One calculate_edge_score call: the inputs it is checked on *)

EsGapPercents == {-2408, 0, 499, 500, 700, 1000, 1500, 2000, 3000}
EsVolumes == {0, 10000, 100001, 200001, 500001, 850000, 1000001}

EsGapData ==
    {[symbol |-> "XYZ", gap_percent |-> g, volume |-> v,
      gap_direction |-> IF g > 0 THEN "UP" ELSE "DOWN"] : g \in EsGapPercents, v \in EsVolumes}

\* a flash_analysis with data, as AnalyzeFlashStatistics and analyze_symbol build it
FlashAnalysis(edge, cont, fill, vf100, overall, total) ==
    [has_flash_data |-> TRUE, gap_edge_score |-> edge, gap_continuation_rate |-> cont,
     gap_fill_rate |-> fill, volume_factor100 |-> vf100, overall_edge_score |-> overall,
     total_gaps_analyzed |-> total]

EsFlashAnalyses ==
    {None, AnalyzeFlashStatistics(None),
     FlashAnalysis(100, 85, 10, 500, 80, 60),
     FlashAnalysis(130, 85, 10, 500, 80, 21),
     FlashAnalysis(0, 40, 90, 100, 40, 5),
     FlashAnalysis(-20, 50, 85, 100, 50, 11),
     FlashAnalysis(85, 72, 35, 280, 85, 45),
     FlashAnalysis(75, 65, 25, 200, 70, 15)}

EsFloatAnalyses ==
    {None}
    \cup {AnalyzeFloatCharacteristics(fd) :
             fd \in {None} \cup {[float_shares |-> n, float_category |-> "known"] :
                                    n \in {500000, 3200000, 7000000, 30000000}}}

EsNewsAnalyses ==
    {None}
    \cup {AnalyzeNewsCatalyst([catalyst_score |-> c, has_catalyst |-> c >= 20,
                               key_headlines |-> <<>>]) : c \in {0, 20, 30, 50}}

EsAiAnalyses ==
    {None,
     [pattern_type |-> "Float Squeeze", setup_quality |-> 100, confidence |-> 100],
     [pattern_type |-> "Parse Error", setup_quality |-> 0, confidence |-> 0],
     [pattern_type |-> "Mega Gap", setup_quality |-> 50, confidence |-> 61]}

EsInputs ==
    [gap_data : EsGapData, flash_analysis : EsFlashAnalyses,
     float_analysis : EsFloatAnalyses, news_analysis : EsNewsAnalyses,
     ai_analysis : EsAiAnalyses]

\* EdgeScorer.calculate_edge_score, the whole call
CalculateEdgeScoreCall ==
    /\ esOut = NotCalled
    /\ esOut' = CalculateEdgeScore(esIn.gap_data, esIn.flash_analysis, esIn.float_analysis,
                                   esIn.news_analysis, esIn.ai_analysis)
    /\ UNCHANGED <<restVars, esIn, paVars, frVars, cyVars>>

-----------------------------------------------------------------------------
(* Python's global random module, abstractly: a generator state in         *)
(* 0..RngMod-1 that every draw advances.  The interpreter seeds it from OS *)
(* entropy, so its state at start-up is arbitrary; random.seed(h) sets it  *)
(* to a function of h.  hash(str) is salted once per process.              *)

RngMod == 8

NextRng(r) == (5 * r + 3) % RngMod

RECURSIVE Advance(_, _)
Advance(r, n) == IF n = 0 THEN r ELSE Advance(NextRng(r), n - 1)

\* random.randint(lo, hi) / round(random.uniform(lo, hi)) drawn in state r
RandInt(r, lo, hi) == lo + ((hi - lo) * r) \div (RngMod - 1)

SymbolCode(symbol) ==
    CASE symbol = "XYZ" -> 1 [] symbol = "ABC" -> 2 [] symbol = "S1" -> 3
      [] symbol = "S2" -> 4 [] symbol = "S3" -> 5 [] symbol = "S4" -> 6 [] OTHER -> 7

\* hash(symbol) under the process's salt, as random.seed takes it
Hash(symbol, salt) == (SymbolCode(symbol) * 3 + salt) % RngMod

-----------------------------------------------------------------------------
(* FlashResearchFinalScraper (src/src/api/flash_research_final_scraper.py) *)

\* _get_simulated_data of the scraper: random.seed(hash(symbol)), then 6
\* draws for the statistics and 3 for each of the 5 recent gaps
ScraperGetSimulatedData(symbol, salt) ==
    LET r0 == Hash(symbol, salt)
        r1 == NextRng(r0)
        r2 == NextRng(r1)
        r3 == NextRng(r2)
        r4 == NextRng(r3)
        r5 == NextRng(r4)
    IN [result |->
            [source |-> "flash_research_simulated",
             gap_statistics |->
                 [total_gaps |-> RandInt(r0, 25, 85),
                  gap_fill_rate |-> RandInt(r1, 55, 85),
                  continuation_rate |-> RandInt(r2, 65, 80),
                  red_close_rate |-> RandInt(r3, 35, 65),
                  avg_gap_size10 |-> RandInt(r4, 21, 68),
                  premarket_volume_avg |-> RandInt(r5, 75000, 250000)],
             success |-> TRUE],
        rng |-> Advance(r0, 21)]

\* get_comprehensive_analysis with _ensure_authenticated; answer.kind says what
\* the browser and the site do: "driver_error" (setup_driver raises, outside
\* the try), "login_fail", "extract_error" (_extract_real_data raises) or
\* "real" (answer.gap_stats is scraped); the driver is set up only when there
\* is none, so "driver_error" is an answer only then
ScraperGetComprehensiveAnalysis(client, symbol, answer) ==
    IF ~client.driver /\ answer.kind = "driver_error"
    THEN [raised |-> TRUE, result |-> None, client |-> client]
    ELSE IF answer.kind = "login_fail"
    THEN LET sim == ScraperGetSimulatedData(symbol, client.hash_salt)
         IN [raised |-> FALSE, result |-> sim.result,
             client |-> [client EXCEPT !.driver = TRUE, !.is_authenticated = FALSE,
                                       !.rng = sim.rng]]
    ELSE IF answer.kind = "extract_error"
    THEN LET sim == ScraperGetSimulatedData(symbol, client.hash_salt)
         IN [raised |-> FALSE, result |-> sim.result,
             client |-> [client EXCEPT !.driver = TRUE, !.is_authenticated = TRUE,
                                       !.rng = sim.rng]]
    ELSE [raised |-> FALSE,
          result |-> [source |-> "flash_research_real", gap_statistics |-> answer.gap_stats,
                      success |-> TRUE],
          client |-> [client EXCEPT !.driver = TRUE, !.is_authenticated = TRUE]]

-----------------------------------------------------------------------------
(* FlashResearchClient.analyze_symbol (src/src/api/flash_research_client.py) *)

\* _get_simulated_data of the client: six draws from the global generator,
\* which it does not seed
ClientGetSimulatedData(symbol, rng) ==
    LET r0 == rng
        r1 == NextRng(r0)
        r2 == NextRng(r1)
        r3 == NextRng(r2)
        r4 == NextRng(r3)
        r5 == NextRng(r4)
        continuation_rate == RandInt(r0, 60, 80)
        gap_fill_rate == RandInt(r1, 25, 45)
        total_gaps == RandInt(r2, 30, 60)
        volume_factor100 == 10 * RandInt(r3, 15, 35)
        avg_gap_size10 == RandInt(r4, 120, 250)
        edge_score == RandInt(r5, 65, 85)
    IN [result |->
            [has_flash_data |-> TRUE,
             gap_edge_score |-> edge_score,
             historical_performance |-> IF edge_score > 70 THEN "Good" ELSE "Fair",
             gap_continuation_rate |-> continuation_rate,
             gap_fill_rate |-> gap_fill_rate,
             volume_factor100 |-> volume_factor100,
             statistical_edge |-> IF continuation_rate > 70 THEN "Strong bullish momentum"
                                  ELSE "Moderate momentum",
             total_gaps_analyzed |-> total_gaps,
             avg_gap_size10 |-> avg_gap_size10,
             overall_edge_score |-> edge_score],
        rng |-> Advance(rng, 6)]

\* _calculate_edge_score_from_stats
CalculateEdgeScoreFromStats(gap_stats) ==
    LET continuation_rate == Get(gap_stats, "continuation_rate", 50)
        gap_fill_rate == Get(gap_stats, "gap_fill_rate", 50)
        total_gaps == Get(gap_stats, "total_gaps", 0)
        avg_gap_size10 == Get(gap_stats, "avg_gap_size10", 0)
        cont == IF continuation_rate > 75 THEN 20 ELSE IF continuation_rate > 65 THEN 15
                ELSE IF continuation_rate > 55 THEN 10 ELSE 0
        fill == IF gap_fill_rate < 30 THEN 15 ELSE IF gap_fill_rate < 45 THEN 10
                ELSE IF gap_fill_rate > 70 THEN -5 ELSE 0
        gaps == IF total_gaps > 50 THEN 10 ELSE IF total_gaps > 30 THEN 5 ELSE 0
        size == IF avg_gap_size10 > 50 THEN 10 ELSE IF avg_gap_size10 > 30 THEN 5 ELSE 0
    IN Max(0, Min(100, 50 + cont + fill + gaps + size))

\* _get_performance_from_score and _get_performance_description
GetPerformanceFromScore(score) ==
    IF score >= 80 THEN "Excellent" ELSE IF score >= 70 THEN "Good"
    ELSE IF score >= 60 THEN "Fair" ELSE "Poor"

\* _get_edge_description
GetEdgeDescription(gap_stats) ==
    LET continuation_rate == Get(gap_stats, "continuation_rate", 50)
        gap_fill_rate == Get(gap_stats, "gap_fill_rate", 50)
    IN IF continuation_rate > 75 /\ gap_fill_rate < 35 THEN "Strong momentum edge"
       ELSE IF continuation_rate > 65 THEN "Moderate momentum bias"
       ELSE IF gap_fill_rate > 70 THEN "Mean reversion tendency"
       ELSE "Neutral statistical edge"

\* _get_statistical_edge_description
GetStatisticalEdgeDescription(gap_stats) ==
    LET continuation_rate == Get(gap_stats, "continuation_rate", 50)
        gap_fill_rate == Get(gap_stats, "gap_fill_rate", 50)
    IN IF continuation_rate > 70 /\ gap_fill_rate < 40 THEN "Strong bullish momentum"
       ELSE IF continuation_rate > 60 THEN "Moderate momentum bias"
       ELSE IF gap_fill_rate > 70 THEN "High reversion tendency"
       ELSE "Neutral bias"

\* analyze_symbol, the branch "if scraper_result.get('success')"
FromScraperResult(scraper_result) ==
    With(Get(scraper_result, "gap_statistics", [none |-> 0]), LAMBDA gap_stats :
    With(CalculateEdgeScoreFromStats(gap_stats), LAMBDA edge_score :
       [has_flash_data |-> TRUE,
        gap_edge_score |-> edge_score,
        historical_performance |-> GetPerformanceFromScore(edge_score),
        gap_continuation_rate |-> Get(gap_stats, "continuation_rate", 70),
        gap_fill_rate |-> Get(gap_stats, "gap_fill_rate", 35),
        volume_factor100 |-> Get(gap_stats, "premarket_volume_avg", 150000) \div 1000,
        statistical_edge |-> GetEdgeDescription(gap_stats),
        total_gaps_analyzed |-> Get(gap_stats, "total_gaps", 45),
        avg_gap_size10 |-> Get(gap_stats, "avg_gap_size10", 42),
        overall_edge_score |-> edge_score,
        source |-> Get(scraper_result, "source", "flash_research_final")]))

\* analyze_symbol, the branch of the API client with gap statistics
FromGapStatistics(gap_stats) ==
    [has_flash_data |-> TRUE,
     gap_edge_score |-> Get(gap_stats, "gap_edge_score", 50),
     historical_performance |-> GetPerformanceFromScore(Get(gap_stats, "gap_edge_score", 50)),
     gap_continuation_rate |-> Get(gap_stats, "continuation_rate", 50),
     gap_fill_rate |-> Get(gap_stats, "gap_fill_rate", 50),
     volume_factor100 |-> Get(gap_stats, "volume_factor100", 100),
     statistical_edge |-> GetStatisticalEdgeDescription(gap_stats),
     total_gaps_analyzed |-> Get(gap_stats, "total_gaps", 0),
     avg_gap_size10 |-> Get(gap_stats, "avg_gap_size10", 0),
     overall_edge_score |-> Get(gap_stats, "gap_edge_score", 50)]

\* analyze_symbol.  With the scraper, answer is as for
\* ScraperGetComprehensiveAnalysis; with the API client answer.data is what
\* _make_request('stats/gaps') returned (None when the request failed).
\* The result is what the call returns, client the client afterwards.
AnalyzeSymbol(client, symbol, answer) ==
    IF client.use_scraper
    THEN With(ScraperGetComprehensiveAnalysis(client, symbol, answer), LAMBDA got :
            IF got.raised
            THEN LET sim == ClientGetSimulatedData(symbol, got.client.rng)
                 IN [result |-> sim.result, client |-> [got.client EXCEPT !.rng = sim.rng]]
            ELSE IF Get(got.result, "success", FALSE)
            THEN [result |-> FromScraperResult(got.result), client |-> got.client]
            ELSE LET sim == ClientGetSimulatedData(symbol, got.client.rng)
                 IN [result |-> sim.result, client |-> [got.client EXCEPT !.rng = sim.rng]])
    ELSE LET gap_stats == GetGapStatistics(answer.data)
         IN IF Truthy(gap_stats) /\ Get(gap_stats, "total_gaps", 0) > 0
            THEN [result |-> FromGapStatistics(gap_stats), client |-> client]
            ELSE LET sim == ClientGetSimulatedData(symbol, client.rng)
                 IN [result |-> sim.result, client |-> [client EXCEPT !.rng = sim.rng]]

-----------------------------------------------------------------------------
(* GapScanner (src/src/scanners/gap_scanner.py).  Prices are in cents.     *)

min_gap_percent == 5
min_price == 50
max_price == 2000
min_volume == 100000

\* round(n / d): nearest integer, ties to even, for d # 0
\* the rounded quotient without its sign
RoundDivMagnitude(n, d) ==
    LET a == Abs(n)
        b == Abs(d)
        q == a \div b
        r == a % b
    IN IF 2 * r > b \/ (2 * r = b /\ q % 2 = 1) THEN q + 1 ELSE q

RoundDiv(n, d) ==
    LET a == Abs(n)
        b == Abs(d)
        q == a \div b
        r == a % b
        m == IF 2 * r > b \/ (2 * r = b /\ q % 2 = 1) THEN q + 1 ELSE q
    IN IF (n < 0) # (d < 0) THEN -m ELSE m

\* scan_symbol: snap is what the broker answers for the symbol; kind is
\* "raise" (a call raises), "not_tradeable", "no_previous_close" (no snapshot
\* or no previous daily bar), "no_trade" or "ok"; "if not previous_close"
\* stops on a close of 0 and on nothing else, min_volume is read nowhere
ScanSymbol(symbol, snap) ==
    IF snap.kind = "raise" THEN None
    ELSE IF snap.kind = "not_tradeable" THEN None
    ELSE IF snap.kind = "no_previous_close" \/ snap.previous_close = 0 THEN None
    ELSE IF snap.kind = "no_trade" THEN None
    ELSE IF snap.current_price < min_price \/ snap.current_price > max_price THEN None
    ELSE IF Abs(snap.current_price - snap.previous_close) * 100
                < min_gap_percent * Abs(snap.previous_close) THEN None
    ELSE [symbol |-> symbol,
          previous_close |-> snap.previous_close,
          current_price |-> snap.current_price,
          gap_percent |-> RoundDiv((snap.current_price - snap.previous_close) * 10000,
                                   snap.previous_close),
          volume |-> snap.volume,
          gap_direction |-> IF (snap.current_price - snap.previous_close) * snap.previous_close > 0
                            THEN "UP" ELSE "DOWN"]

\* list.sort(key=..., reverse=True) is stable: the element at index i goes
\* behind every element with a greater key and every earlier one with an equal key
SortedPosition(keys, i) ==
    1 + Cardinality({j \in DOMAIN keys : keys[j] > keys[i] \/ (keys[j] = keys[i] /\ j < i)})

SortDescending(results, keys) ==
    [p \in DOMAIN results |-> results[CHOOSE i \in DOMAIN results : SortedPosition(keys, i) = p]]

\* results.sort(key=lambda x: abs(x['gap_percent']), reverse=True)
SortByGap(results) ==
    SortDescending(results, [i \in DOMAIN results |-> Abs(results[i].gap_percent)])

\* get_market_movers: the fixed watchlist, cut to NumSymbols names
NumSymbols == 4

SymbolName(i) == <<"S1", "S2", "S3", "S4", "S5", "S6", "S7", "S8">>[i]

GetMarketMovers == [i \in 1..NumSymbols |-> SymbolName(i)]
-----------------------------------------------------------------------------
(* TradingBot (src/src/main.py).  combined_score and total_score of a      *)
(* result are in hundredths of a point (the fallback entry takes the gap   *)
(* percentage as its score); telegram_message "" stands for None.          *)

\* _calculate_our_scoring
CalculateOurScoring(gap_data, flash_data) ==
    LET gap_percent == Abs(Get(gap_data, "gap_percent", 0))
        volume == Get(gap_data, "volume", 0)
        float_shares == Get(gap_data, "float_shares", 0)
        gap_score == IF gap_percent >= Pct(20) THEN 25 ELSE IF gap_percent >= Pct(15) THEN 22
                     ELSE IF gap_percent >= Pct(10) THEN 18
                     ELSE IF gap_percent >= Pct(5) THEN 12 ELSE 5
        volume_score == IF volume >= 1000000 THEN 20 ELSE IF volume >= 500000 THEN 16
                        ELSE IF volume >= 100000 THEN 12 ELSE 8
        float_score == IF float_shares > 0
                       THEN (IF float_shares <= 5000000 THEN 15
                             ELSE IF float_shares <= 10000000 THEN 12
                             ELSE IF float_shares <= 20000000 THEN 9 ELSE 6)
                       ELSE 8
        has_flash == Truthy(flash_data) /\ Get(flash_data, "has_flash_data", FALSE)
        flash_score == IF has_flash
                       THEN (Get(flash_data, "gap_edge_score", 50) * 40) \div 100
                       ELSE 20
        ai_score == 8
    IN [total_score |-> gap_score + volume_score + float_score + flash_score + ai_score,
        gap_score |-> gap_score,
        volume_score |-> volume_score,
        float_score |-> float_score,
        flash_score |-> flash_score,
        ai_score |-> ai_score,
        has_flash_reasoning |-> has_flash]

\* _run_comprehensive_analysis: answer is what the historical source does for
\* this symbol; with OpenAI configured analyze_gap_with_flash_research
\* returns a dict with a telegram_message (its own fallback when the call fails)
RunComprehensiveAnalysis(gap_data, client, answer, openai_enabled) ==
    With(AnalyzeSymbol(client, gap_data.symbol, answer), LAMBDA got :
    With(CalculateOurScoring(gap_data, got.result), LAMBDA our_analysis :
    LET flash_data == got.result
        ai_result == IF openai_enabled
                     THEN [telegram_message |-> "ai", recommended_action |-> "ai"]
                     ELSE None
    IN [enhanced_gap |->
            [flash_data |-> flash_data,
             our_analysis |-> our_analysis,
             ai_result |-> ai_result,
             total_score100 |-> 100 * Get(our_analysis, "total_score", 50),
             combined_score100 |-> 100 * Get(our_analysis, "total_score", 50),
             telegram_message |-> IF Truthy(ai_result)
                                  THEN Get(ai_result, "telegram_message", "") ELSE "",
             recommended_action |-> IF Truthy(ai_result)
                                    THEN Get(ai_result, "recommended_action", "")
                                    ELSE "Standard approach"] @@ gap_data,
        client |-> got.client]))

\* the loop body without the fallback entry: a gap whose analysis raised is
\* only logged
AnalyzeGapDropping(results, gap, client, answer, openai_enabled) ==
    IF answer.kind = "raise"
    THEN [enhanced_results |-> results,
          client |-> client,
          logged |-> <<[event |-> "analysis_failed", symbol |-> gap.symbol]>>]
    ELSE LET done == RunComprehensiveAnalysis(gap, client, answer, openai_enabled)
         IN [enhanced_results |-> Append(results, done.enhanced_gap),
             client |-> done.client,
             logged |-> <<>>]

\* run_gap_scan, the body of "for gap in gap_results": answer.kind "raise"
\* is an exception escaping _run_comprehensive_analysis
AnalyzeGap(results, gap, client, answer, openai_enabled) ==
    IF answer.kind = "raise"
    THEN [enhanced_results |->
              Append(results, [total_score100 |-> Abs(Get(gap, "gap_percent", 0)),
                               combined_score100 |-> Abs(Get(gap, "gap_percent", 0))] @@ gap),
          client |-> client,
          logged |-> <<[event |-> "analysis_failed", symbol |-> gap.symbol]>>]
    ELSE LET done == RunComprehensiveAnalysis(gap, client, answer, openai_enabled)
         IN [enhanced_results |-> Append(results, done.enhanced_gap),
             client |-> done.client,
             logged |-> <<>>]

\* the results left in the order of the gap scan
SortByCombinedScoreNone(results) == results

\* enhanced_results.sort(key=lambda x: x.get('combined_score', 0), reverse=True)
SortByCombinedScore(results) ==
    SortDescending(results, [i \in DOMAIN results |-> Get(results[i], "combined_score100", 0)])

\* _send_enhanced_alerts: results[:3]
TopResults(results) == SubSeq(results, 1, Min(3, Len(results)))

\* a piece of an alert text: the literal words of the f-string and the number
\* formatted after them
Segment(label, value) == [label |-> label, value |-> value]

HasLabel(text, label) == \E i \in DOMAIN text : text[i].label = label

\* _create_fallback_alert: the text as the sequence of its pieces; float and
\* market cap in tenths of a million, total_score in hundredths
CreateFallbackAlert(gap_data) ==
    LET gap_percent == Get(gap_data, "gap_percent", 0)
        current_price == Get(gap_data, "current_price", 0)
        market_cap10 == Get(gap_data, "market_cap", 0) \div 100000
        float_shares10 == Get(gap_data, "float_shares", 0) \div 100000
        total_score100 == Get(gap_data, "total_score100", 0)
        flash_data == Get(gap_data, "flash_data", None)
        continuation_rate == Get(flash_data, "gap_continuation_rate", 0)
        fill_rate == Get(flash_data, "gap_fill_rate", 0)
        our_analysis == Get(gap_data, "our_analysis", None)
    IN <<Segment(IF gap_percent > 0 THEN "Gap +" ELSE "Gap", gap_percent),
         Segment("$", current_price),
         Segment("Cap:", market_cap10),
         Segment("Float:", float_shares10),
         Segment("Score:", total_score100)>>
       \o (IF Truthy(flash_data) /\ Get(flash_data, "has_flash_data", FALSE)
           THEN <<Segment("Historical Edge", Get(flash_data, "gap_edge_score", 0)),
                  Segment("gaps analyzed", Get(flash_data, "total_gaps_analyzed", 0)),
                  Segment("continuation rate", continuation_rate),
                  Segment("gap fill rate", fill_rate)>>
                \o (IF continuation_rate > 75 THEN <<Segment("Strong momentum bias", 0)>>
                    ELSE IF continuation_rate > 65
                    THEN <<Segment("Moderate momentum bias", 0)>> ELSE <<>>)
                \o (IF fill_rate < 40 THEN <<Segment("Low gap fill tendency", 0)>> ELSE <<>>)
           ELSE <<>>)
       \o (IF Truthy(our_analysis)
           THEN <<Segment("Scoring Breakdown:", our_analysis.total_score)>>
           ELSE <<>>)

\* the loop body with the try around the whole loop: a failure ends the loop
SendEnhancedAlertAborting(results, i, outcome) ==
    LET gap == results[i]
        message == IF Get(gap, "telegram_message", "") # "" THEN "ai" ELSE "fallback"
    IN [alert |-> [symbol |-> gap.symbol,
                   combined_score100 |-> Get(gap, "combined_score100", 0),
                   message |-> IF outcome = "format_error" THEN "" ELSE message,
                   text |-> IF outcome # "format_error" /\ message = "fallback"
                            THEN CreateFallbackAlert(gap) ELSE <<>>,
                   outcome |-> outcome],
        logged |-> IF outcome = "sent" THEN <<>>
                   ELSE <<[event |-> "failed_to_send_alert", symbol |-> gap.symbol]>>,
        next |-> IF outcome = "sent" THEN i + 1 ELSE Len(results) + 1]

\* _send_enhanced_alerts, the body of "for gap in results[:3]" for the gap at
\* index i: outcome is "sent", "send_error" (send_message raises inside
\* send_alert, which logs it) or "format_error" (building the message raises)
SendEnhancedAlert(results, i, outcome) ==
    LET gap == results[i]
        message == IF Get(gap, "telegram_message", "") # "" THEN "ai" ELSE "fallback"
    IN [alert |-> [symbol |-> gap.symbol,
                   combined_score100 |-> Get(gap, "combined_score100", 0),
                   message |-> IF outcome = "format_error" THEN "" ELSE message,
                   text |-> IF outcome # "format_error" /\ message = "fallback"
                            THEN CreateFallbackAlert(gap) ELSE <<>>,
                   outcome |-> outcome],
        logged |-> IF outcome = "sent" THEN <<>>
                   ELSE IF outcome = "send_error"
                   THEN <<[event |-> "error_sending_alert", symbol |-> gap.symbol]>>
                   ELSE <<[event |-> "failed_to_send_alert", symbol |-> gap.symbol]>>,
        next |-> i + 1]
-----------------------------------------------------------------------------
(* The four state machines.  Each leaves the other subsystems idle.         *)

IdlePattern == paIn = None /\ paOut = NotCalled
IdleEdge == esIn = None /\ esOut = NotCalled
IdleFlash == frClient = None /\ frCalls = <<>>
IdleCycle ==
    /\ config = None
    /\ pc = "idle"
    /\ market = <<>>
    /\ cursor = 0
    /\ gap_results = <<>>
    /\ enhanced_results = <<>>
    /\ alerts = <<>>
    /\ log = <<>>
IdleScan == gsIn = None /\ gsOut = NotCalled
IdleFinnhub == fhClient = None /\ fhCall = None /\ fhGranted = <<>> /\ clock = 0
IdleContinuous == rcBot = None /\ rcRun = None
IdlePipeline == plIn = None /\ plRun = None
IdleNews == nsIn = None /\ nsOut = NotCalled
IdleFloat == fmIn = None /\ fmOut = NotCalled
IdleScoring == osIn = None /\ osOut = NotCalled
IdleHours == mhCfg = None /\ mhNow = 0 /\ mhRun = None
IdleRequest == rqClient = None /\ rqCall = None /\ rqGets = <<>> /\ rqNow = 0
IdleAux == IdleFloat /\ IdleScoring /\ IdleHours /\ IdleRequest
IdleRest == IdleScan /\ IdleFinnhub /\ IdleContinuous /\ IdlePipeline /\ IdleNews /\ IdleAux

\* PatternAnalyzer.analyze_gap_setup on one input
InitPattern ==
    /\ paIn \in PaInputs
    /\ paIn.ai_enabled \/ paIn.ai_answer = None
    /\ paOut = NotCalled
    /\ IdleEdge /\ IdleFlash /\ IdleCycle /\ IdleRest

NextPattern == AnalyzeGapSetup

SpecPattern == InitPattern /\ [][NextPattern]_vars

\* EdgeScorer.calculate_edge_score on one input
InitEdge ==
    /\ esIn \in EsInputs
    /\ esOut = NotCalled
    /\ IdlePattern /\ IdleFlash /\ IdleCycle /\ IdleRest

NextEdge == CalculateEdgeScoreCall

SpecEdge == InitEdge /\ [][NextEdge]_vars

-----------------------------------------------------------------------------
(* FlashResearchClient.analyze_symbol called up to MaxCalls times           *)

MaxCalls == 2

FrSymbols == {"XYZ", "ABC"}

ScrapedStats ==
    [total_gaps |-> 52, gap_fill_rate |-> 28, continuation_rate |-> 78,
     avg_gap_size10 |-> 55, premarket_volume_avg |-> 210000]

ScraperAnswers ==
    {[kind |-> "driver_error"], [kind |-> "login_fail"], [kind |-> "extract_error"],
     [kind |-> "real", gap_stats |-> ScrapedStats]}

ApiAnswers ==
    {[kind |-> "request_failed", data |-> None],
     [kind |-> "no_gaps", data |-> [total_gaps |-> 0]],
     [kind |-> "data", data |-> RawGapsStrong]}

\* FlashResearchClient.__init__ in either mode, in a process whose random
\* generator and hash salt are arbitrary
InitFlash ==
    /\ frClient \in [use_scraper : BOOLEAN, driver : {FALSE}, is_authenticated : {FALSE},
                     rng : 0..(RngMod - 1), hash_salt : 0..(RngMod - 1)]
    /\ frCalls = <<>>
    /\ IdlePattern /\ IdleEdge /\ IdleCycle /\ IdleRest

\* one call of analyze_symbol
AnalyzeSymbolCall ==
    /\ Len(frCalls) < MaxCalls
    /\ \E symbol \in FrSymbols :
         \E answer \in (IF frClient.use_scraper THEN ScraperAnswers ELSE ApiAnswers) :
            /\ answer.kind = "driver_error" => ~frClient.driver
            /\ \E got \in {AnalyzeSymbol(frClient, symbol, answer)} :
               /\ frClient' = got.client
               /\ frCalls' = Append(frCalls, [symbol |-> symbol, answer |-> answer,
                                              result |-> got.result])
    /\ UNCHANGED <<restVars, paVars, esVars, cyVars>>

NextFlash == AnalyzeSymbolCall

SpecFlash == InitFlash /\ [][NextFlash]_vars
-----------------------------------------------------------------------------
(* One scan cycle, TradingBot.run_gap_scan, step by step                    *)

\* what the broker may answer for a symbol: 200 -> 220 is +10 %, 400 -> 300
\* is -25 %
CySnapshots ==
    {[kind |-> "raise"],
     [kind |-> "no_previous_close"],
     [kind |-> "ok", previous_close |-> 200, current_price |-> 220, volume |-> 150000],
     [kind |-> "ok", previous_close |-> 400, current_price |-> 300, volume |-> 60000]}

\* what happens while one gap is analysed
CyAnswers ==
    {[kind |-> "raise"], [kind |-> "extract_error"],
     [kind |-> "real", gap_stats |-> ScrapedStats]}

AlertOutcomes == {"sent", "send_error", "format_error"}

\* TradingBot.__init__: the flash client uses the scraper; OpenAI and
\* Telegram are configured or not
Init ==
    /\ config \in [openai_enabled : BOOLEAN, telegram_enabled : BOOLEAN]
    /\ frClient = [use_scraper |-> TRUE, driver |-> FALSE, is_authenticated |-> FALSE,
                   rng |-> 0, hash_salt |-> 0]
    /\ frCalls = <<>>
    /\ pc = "start"
    /\ market = <<>>
    /\ cursor = 1
    /\ gap_results = <<>>
    /\ enhanced_results = <<>>
    /\ alerts = <<>>
    /\ log = <<>>
    /\ IdlePattern /\ IdleEdge /\ IdleRest

\* run_gap_scan up to get_market_movers: outside the trading sessions the
\* cycle ends at once
StartGapScan ==
    /\ pc = "start"
    /\ \E should_scan_now \in BOOLEAN :
         IF should_scan_now
         THEN pc' = "scan" /\ log' = log
         ELSE pc' = "done" /\ log' = Append(log, [event |-> "scanner_paused", symbol |-> ""])
    /\ UNCHANGED <<restVars, config, market, cursor, gap_results, enhanced_results, alerts,
                   paVars, esVars, frVars>>

\* scan_watchlist, one iteration of "for symbol in symbols"; the last one is
\* followed by the sort and by run_gap_scan's test of the result
ScanWatchlistStep ==
    /\ pc = "scan"
    /\ \E snap \in CySnapshots :
         LET symbol == GetMarketMovers[cursor]
             gap_data == ScanSymbol(symbol, snap)
             results == IF Truthy(gap_data) THEN Append(gap_results, gap_data)
                        ELSE gap_results
         IN /\ market' = Append(market, snap)
            /\ log' = IF snap.kind = "raise"
                      THEN Append(log, [event |-> "error_scanning", symbol |-> symbol])
                      ELSE log
            /\ IF cursor < Len(GetMarketMovers)
               THEN /\ gap_results' = results
                    /\ cursor' = cursor + 1
                    /\ pc' = "scan"
               ELSE /\ gap_results' = SortByGap(results)
                    /\ cursor' = 1
                    /\ pc' = IF results # <<>> THEN "analyze" ELSE "done"
    /\ UNCHANGED <<restVars, config, enhanced_results, alerts, paVars, esVars, frVars>>

\* run_gap_scan, one iteration of "for gap in gap_results"; the last one is
\* followed by the sort, the printed table and the test for alerts
AnalyzeGapStep ==
    /\ pc = "analyze"
    /\ \E answer \in CyAnswers :
         \E done \in {AnalyzeGap(enhanced_results, gap_results[cursor], frClient, answer,
                                  config.openai_enabled)} :
            /\ frClient' = done.client
            /\ log' = log \o done.logged
            /\ IF cursor < Len(gap_results)
               THEN /\ enhanced_results' = done.enhanced_results
                    /\ cursor' = cursor + 1
                    /\ pc' = "analyze"
               ELSE /\ enhanced_results' = SortByCombinedScore(done.enhanced_results)
                    /\ cursor' = 1
                    /\ pc' = IF config.telegram_enabled THEN "alert" ELSE "done"
    /\ UNCHANGED <<restVars, config, market, gap_results, alerts, frCalls, paVars, esVars>>

\* _send_enhanced_alerts, one iteration of "for gap in results[:3]"; only a
\* message built by _create_fallback_alert can fail to be built
SendAlertStep ==
    /\ pc = "alert"
    /\ \E outcome \in AlertOutcomes :
         /\ outcome = "format_error"
               => Get(TopResults(enhanced_results)[cursor], "telegram_message", "") = ""
         /\ \E sent \in {SendEnhancedAlert(TopResults(enhanced_results), cursor, outcome)} :
               /\ alerts' = Append(alerts, sent.alert)
               /\ log' = log \o sent.logged
               /\ cursor' = sent.next
               /\ pc' = IF sent.next <= Len(TopResults(enhanced_results))
                        THEN "alert" ELSE "done"
    /\ UNCHANGED <<restVars, config, market, gap_results, enhanced_results, paVars, esVars, frVars>>

Next == StartGapScan \/ ScanWatchlistStep \/ AnalyzeGapStep \/ SendAlertStep

Spec == Init /\ [][Next]_vars
-----------------------------------------------------------------------------
(* Properties of PatternAnalyzer, checked under SpecPattern                 *)

PatternLabels ==
    <<"Float Squeeze", "News Catalyst", "Mega Gap", "Statistical Edge", "Gap & Go",
      "Micro Float", "Standard Gap">>

\* the condition of priority rule i on the finished analysis paOut of paIn
PatternRuleHolds(i) ==
    LET gap == Abs(paIn.gap_data.gap_percent)
        float == paOut.float_analysis
        news == paOut.news_analysis
        flash == paOut.flash_analysis
    IN CASE i = 1 -> (float.is_nanofloat /\ gap >= 1000) \/ (float.is_microfloat /\ gap >= 1500)
         [] i = 2 -> news.has_catalyst /\ news.catalyst_strength >= 70 /\ gap >= 800
         [] i = 3 -> gap >= 3000
         [] i = 4 -> flash.has_flash_data /\ flash.gap_edge_score >= 75 /\ gap >= 800
         [] i = 5 -> gap >= 1000 /\ paIn.gap_data.volume > 50000
         [] i = 6 -> float.is_microfloat /\ gap >= 500
         [] OTHER -> TRUE

\* C1: a locally classified setup carries the label of the first rule, in
\* the order Float Squeeze, News Catalyst, Mega Gap, Statistical Edge,
\* Gap & Go, Micro Float, Standard Gap, whose condition holds.
C1_FirstMatchWins ==
    (paOut # NotCalled /\ paOut.analysis_source = "local")
        => \E i \in 1..7 : /\ paOut.pattern_type = PatternLabels[i]
                           /\ PatternRuleHolds(i)
                           /\ \A j \in 1..(i - 1) : ~PatternRuleHolds(j)

\* a setup meeting both the Float Squeeze and the Mega Gap condition was
\* classified Float Squeeze
C1_Witness ==
    /\ paOut # NotCalled
    /\ paOut.analysis_source = "local"
    /\ PatternRuleHolds(1) /\ PatternRuleHolds(3)
    /\ paOut.pattern_type = "Float Squeeze"

HistoricalSourceDown ==
    /\ paIn.flash_answers.gaps = None
    /\ paIn.flash_answers.float = None
    /\ paIn.flash_answers.performance = None

\* C10: when the three historical fetches return nothing, analyze_gap_setup
\* does not answer with the error result: the pattern is the one the
\* priority rules give with the neutral historical defaults.
C10_HistoricalDownDegrades ==
    (paOut # NotCalled /\ HistoricalSourceDown)
        => /\ paOut.analysis_source # "fallback"
           /\ paOut.pattern_type # "Analysis Error"
           /\ ~paIn.ai_enabled =>
                 paOut.pattern_type =
                     DeterminePatternType(Abs(paIn.gap_data.gap_percent),
                                          paIn.gap_data.gap_direction,
                                          AnalyzeFloatCharacteristics(paIn.float_data),
                                          AnalyzeNewsCatalyst(ScanSymbolNews(paIn.feed)),
                                          paIn.gap_data.volume,
                                          AnalyzeFlashStatistics(None))

-----------------------------------------------------------------------------
(* Properties of EdgeScorer, checked under SpecEdge                         *)

ComponentNames ==
    {"flash_research", "gap_characteristics", "float_dynamics", "ai_pattern", "news_catalyst"}

\* C2: the five component scores and the total edge score of every result,
\* computed or fallback, lie in [0, 100].
C2_ScoresInRange ==
    esOut # NotCalled
        => /\ esOut.total_edge_score10 \in 0..1000
           /\ \A c \in ComponentNames : esOut.component_scores[c] \in 0..1000

\* a historical edge score above 100 was scored and came out as 100
C2_Witness ==
    /\ esOut # NotCalled
    /\ ~IsNone(esIn.flash_analysis) /\ ~IsNone(esIn.news_analysis)
    /\ Get(esIn.flash_analysis, "gap_edge_score", 50) > 100
    /\ esOut.component_scores.flash_research = 1000

\* C3: when a step of calculate_edge_score raises (a None historical or news
\* analysis), the call still returns, and returns the neutral fallback:
\* total 50, confidence Low, classification Analysis Error, components 50.
C3_FallbackOnRaise ==
    esOut # NotCalled
        => /\ "total_edge_score10" \in DOMAIN esOut
           /\ (IsNone(esIn.flash_analysis) \/ IsNone(esIn.news_analysis))
                => /\ esOut.total_edge_score10 = 500
                   /\ esOut.confidence_level = "Low"
                   /\ esOut.edge_classification = "Analysis Error"
                   /\ \A c \in ComponentNames : esOut.component_scores[c] = 500

\* the news analysis alone was None and the fallback came back
C3_Witness ==
    /\ esOut # NotCalled
    /\ IsNone(esIn.news_analysis) /\ ~IsNone(esIn.flash_analysis)
    /\ Get(esIn.flash_analysis, "gap_edge_score", 50) # 50
    /\ esOut.edge_classification = "Analysis Error"
    /\ esOut.total_edge_score10 = 500

ValidEdgeScore(r) ==
    /\ {"symbol", "total_edge_score10", "confidence_level", "edge_classification",
        "component_scores", "trading_recommendations"} \subseteq DOMAIN r
    /\ r.total_edge_score10 \in 0..1000
    /\ r.confidence_level \in {"Low", "Medium", "High", "Very High"}
    /\ DOMAIN r.component_scores = ComponentNames

\* C4: with the float, news and AI analyses all None the scorer returns a
\* valid edge score whose confidence level is Low.
C4_NoneInputsLowConfidence ==
    (esOut # NotCalled /\ IsNone(esIn.float_analysis) /\ IsNone(esIn.news_analysis)
        /\ IsNone(esIn.ai_analysis))
        => ValidEdgeScore(esOut) /\ esOut.confidence_level = "Low"

\* the three were None next to a well-sampled history, and confidence is Low
C4_Witness ==
    /\ esOut # NotCalled
    /\ IsNone(esIn.float_analysis) /\ IsNone(esIn.news_analysis) /\ IsNone(esIn.ai_analysis)
    /\ ~IsNone(esIn.flash_analysis)
    /\ Get(esIn.flash_analysis, "has_flash_data", FALSE)
    /\ Get(esIn.flash_analysis, "total_gaps_analyzed", 0) > 20
    /\ esOut.confidence_level = "Low"
-----------------------------------------------------------------------------
(* Properties of FlashResearchClient.analyze_symbol, checked under SpecFlash *)

\* the historical source failed for the call: no driver, no login, no
\* extraction, no answer to the request, or no gaps for the symbol
FailedCall(call) ==
    call.answer.kind \in {"driver_error", "login_fail", "extract_error", "request_failed",
                          "no_gaps"}

\* C5: the result of a call for which the historical source failed is tagged
\* has-data = false and source = "simulated".
C5_FailureTaggedSimulated ==
    \A i \in DOMAIN frCalls :
        FailedCall(frCalls[i])
            => /\ ~Get(frCalls[i].result, "has_flash_data", FALSE)
               /\ Get(frCalls[i].result, "source", "") = "simulated"

SubstituteNumbers(result) ==
    <<result.gap_continuation_rate, result.gap_fill_rate, result.total_gaps_analyzed,
      result.avg_gap_size10, result.volume_factor100, result.gap_edge_score>>

\* C6: two consecutive failed calls for the same symbol return the same
\* substitute numbers.
C6_FallbackStable ==
    \A i \in DOMAIN frCalls :
        (/\ i + 1 \in DOMAIN frCalls
         /\ FailedCall(frCalls[i]) /\ FailedCall(frCalls[i + 1])
         /\ frCalls[i].symbol = frCalls[i + 1].symbol)
            => SubstituteNumbers(frCalls[i].result) = SubstituteNumbers(frCalls[i + 1].result)

-----------------------------------------------------------------------------
(* Properties of the scan cycle, checked under Spec                         *)

\* the snapshot is one scan_symbol reports as a gap
IsGapSnapshot(snap) ==
    /\ snap.kind = "ok"
    /\ snap.previous_close > 0
    /\ snap.current_price >= min_price /\ snap.current_price <= max_price
    /\ 100 * Abs(snap.current_price - snap.previous_close)
           >= min_gap_percent * snap.previous_close

SymbolsOf(results) == {results[i].symbol : i \in DOMAIN results}

\* C7: a symbol without price data or whose fetch raises is skipped and the
\* scan goes on to the end of the watchlist; a gap whose analysis raises
\* still gets its entry, so the analysed list holds one entry per gap found.
C7_OneBadSymbolDoesNotAbort ==
    /\ pc \in {"analyze", "alert"} => Len(market) = NumSymbols
    /\ (pc = "done" /\ market # <<>>) => Len(market) = NumSymbols
    /\ SymbolsOf(gap_results)
           = {GetMarketMovers[i] : i \in {j \in DOMAIN market : IsGapSnapshot(market[j])}}
    /\ Len(gap_results) = Cardinality(SymbolsOf(gap_results))
    /\ pc = "analyze" => Len(enhanced_results) = cursor - 1
    /\ pc \in {"alert", "done"}
         => /\ Len(enhanced_results) = Len(gap_results)
            /\ SymbolsOf(enhanced_results) = SymbolsOf(gap_results)

\* a fetch raised, a previous close was missing and an analysis raised in a
\* cycle that ended with an entry for each of its gaps
C7_Witness ==
    /\ pc = "done"
    /\ \E i \in DOMAIN market : market[i].kind = "raise" /\ i < Len(market)
    /\ \E i \in DOMAIN market : market[i].kind = "no_previous_close" /\ i < Len(market)
    /\ Len(gap_results) = 2
    /\ \E i \in DOMAIN log :
          log[i].event = "analysis_failed" /\ log[i].symbol = gap_results[1].symbol
    /\ Len(enhanced_results) = 2

ScoreOf(r) == Get(r, "combined_score100", 0)

\* C8: alerts start only when every gap is scored and the list is ranked;
\* at most 3 are sent, each for a gap that fewer than 3 gaps outscore, in
\* non-increasing order of combined score.
C8_AlertsAfterRankingTopThree ==
    /\ alerts # <<>>
         => /\ pc \in {"alert", "done"}
            /\ Len(enhanced_results) = Len(gap_results)
            /\ \A i \in DOMAIN enhanced_results :
                  "combined_score100" \in DOMAIN enhanced_results[i]
            /\ \A i, j \in DOMAIN enhanced_results :
                  i < j => ScoreOf(enhanced_results[i]) >= ScoreOf(enhanced_results[j])
    /\ Len(alerts) <= 3
    /\ \A k \in DOMAIN alerts :
          /\ \E i \in DOMAIN enhanced_results :
                /\ enhanced_results[i].symbol = alerts[k].symbol
                /\ ScoreOf(enhanced_results[i]) = alerts[k].combined_score100
          /\ Cardinality({i \in DOMAIN enhanced_results :
                             ScoreOf(enhanced_results[i]) > alerts[k].combined_score100}) < 3
    /\ \A k, l \in DOMAIN alerts :
          k < l => alerts[k].combined_score100 >= alerts[l].combined_score100

\* four gaps, ranked otherwise than the scan listed them, three alerts with
\* falling scores and the lowest gap left out
C8_Witness ==
    /\ pc = "done"
    /\ Len(enhanced_results) = 4
    /\ Len(alerts) = 3
    /\ enhanced_results[1].symbol # gap_results[1].symbol
    /\ alerts[1].combined_score100 > alerts[2].combined_score100
    /\ alerts[2].combined_score100 > alerts[3].combined_score100
    /\ ScoreOf(enhanced_results[4]) < alerts[3].combined_score100

FailedAlerts == {k \in DOMAIN alerts : alerts[k].outcome # "sent"}

AlertFailuresLogged ==
    {i \in DOMAIN log : log[i].event \in {"error_sending_alert", "failed_to_send_alert"}}

\* C9: an alert that cannot be sent or built is logged and the next top gap
\* is still attempted: the cycle ends with one attempt per top gap.
C9_FailedAlertDoesNotAbort ==
    /\ pc = "alert" => Len(alerts) = cursor - 1
    /\ Cardinality(AlertFailuresLogged) = Cardinality(FailedAlerts)
    /\ (pc = "done" /\ config.telegram_enabled /\ enhanced_results # <<>>)
         => Len(alerts) = Min(3, Len(enhanced_results))

\* the first alert could not be sent, the second could not be built, and
\* the third went out
C9_Witness ==
    /\ pc = "done"
    /\ Len(alerts) = 3
    /\ alerts[1].outcome = "send_error"
    /\ alerts[2].outcome = "format_error"
    /\ alerts[3].outcome = "sent"
-----------------------------------------------------------------------------
(* Properties of the alert text, checked under Spec                         *)

\* the analysed gap an alert was built for
GapOfAlert(k) ==
    CHOOSE g \in {enhanced_results[i] : i \in DOMAIN enhanced_results} :
        g.symbol = alerts[k].symbol

\* the historical statistics attached to the gap are the scraper's substitute
HasSubstituteStatistics(gap) ==
    /\ Truthy(Get(gap, "flash_data", None))
    /\ Get(gap.flash_data, "source", "") = "flash_research_simulated"

\* the same gap with its statistics tagged as extracted from the real source
TaggedReal(gap) == [gap EXCEPT !.flash_data.source = "flash_research_real"]

\* C11: an alert built for a gap whose historical statistics are substitute
\* data either has no historical block or is worded otherwise than the
\* alert for the same numbers tagged real.
C11_SimulatedNotPresentedAsReal ==
    \A k \in DOMAIN alerts :
        (alerts[k].text # <<>> /\ HasSubstituteStatistics(GapOfAlert(k)))
            => \/ ~HasLabel(alerts[k].text, "Historical Edge")
               \/ alerts[k].text # CreateFallbackAlert(TaggedReal(GapOfAlert(k)))

\* C19: an alert built for a gap without float data has no "Float:" piece.
C19_NoFloatLineWithoutFloat ==
    \A k \in DOMAIN alerts :
        (alerts[k].text # <<>> /\ "float_shares" \notin DOMAIN GapOfAlert(k))
            => ~HasLabel(alerts[k].text, "Float:")
-----------------------------------------------------------------------------
(* One scan_symbol call: the inputs it is checked on                        *)

\* closes and prices in cents: a negative and a zero close, closes near the
\* thresholds, prices under, inside and over the price band
GsCloses == {-100, 0, 100, 200, 245}
GsPrices == {40, 100, 104, 186, 220, 2100}
GsVolumes == {0, 99999, 100000, 850000}

GsSnapshots ==
    {[kind |-> "raise"], [kind |-> "not_tradeable"], [kind |-> "no_previous_close"]}
    \cup [kind : {"no_trade", "ok"}, previous_close : GsCloses, current_price : GsPrices,
          volume : GsVolumes]

InitScan ==
    /\ gsIn \in [symbol : {"KLTO"}, snap : GsSnapshots]
    /\ gsOut = NotCalled
    /\ IdlePattern /\ IdleEdge /\ IdleFlash /\ IdleCycle /\ IdleFinnhub /\ IdleContinuous
    /\ IdlePipeline /\ IdleNews /\ IdleAux

\* GapScanner.scan_symbol on the input
ScanSymbolCall ==
    /\ gsIn # None
    /\ gsOut = NotCalled
    /\ gsOut' = ScanSymbol(gsIn.symbol, gsIn.snap)
    /\ UNCHANGED <<gsIn, paVars, esVars, frVars, cyVars, fhVars, rcVars, plVars, nsVars, auxVars>>

NextScan == ScanSymbolCall

SpecScan == InitScan /\ [][NextScan]_vars

-----------------------------------------------------------------------------
(* Properties of GapScanner.scan_symbol, checked under SpecScan             *)

\* the previous close is missing, zero or negative
DegenerateClose(snap) == snap.kind = "no_previous_close" \/ snap.previous_close <= 0

OutsidePriceBand(snap) == snap.current_price < min_price \/ snap.current_price > max_price

\* abs(gap_percent) < min_gap_percent, for a positive close
BelowGapThreshold(snap) ==
    100 * Abs(snap.current_price - snap.previous_close) < min_gap_percent * snap.previous_close

\* C12: scan_symbol returns no event when the previous close is missing,
\* zero or negative, when the price is outside [min_price, max_price], or
\* when abs(gap_percent) < min_gap_percent.
C12_DegenerateInputsRejected ==
    (gsOut # NotCalled /\ gsIn.snap.kind \in {"no_previous_close", "ok"})
        => ((\/ DegenerateClose(gsIn.snap)
             \/ OutsidePriceBand(gsIn.snap)
             \/ BelowGapThreshold(gsIn.snap)) => gsOut = None)

\* C13: every event scan_symbol returns has volume >= min_volume.
C13_VolumeFiltered ==
    (gsOut # NotCalled /\ gsOut # None) => gsOut.volume >= min_volume
-----------------------------------------------------------------------------
(* FinnhubClient (src/src/api/finnhub_client.py).  Time is in whole units   *)
(* and the minute is scaled down: the 60 calls per 60 seconds of the code   *)
(* are calls_per_minute calls per MinuteLength units here.                  *)

calls_per_minute == 2
MinuteLength == 3
MaxClock == 8

\* [ts for ts in self.call_timestamps if now - ts < 60]
RecentTimestamps(call_timestamps, now) ==
    SelectSeq(call_timestamps, LAMBDA ts : now - ts < MinuteLength)

\* a sleep that ends one unit before the oldest timestamp leaves the window
SleepTimeShort(call_timestamps, now) == MinuteLength - 1 - (now - call_timestamps[1])

\* sleep_time = 60 - (now - self.call_timestamps[0])
SleepTime(call_timestamps, now) == MinuteLength - (now - call_timestamps[1])

\* _rate_limit_check has to sleep: the window is full and sleep_time > 0
MustSleep(call_timestamps, now) ==
    /\ Len(RecentTimestamps(call_timestamps, now)) >= calls_per_minute
    /\ SleepTime(RecentTimestamps(call_timestamps, now), now) > 0

FhIdleCall == [pc |-> "idle", retries |-> 0, slept |-> FALSE, result |-> "none"]

\* FinnhubClient.__init__, with or without an API key
InitFinnhub ==
    /\ fhClient \in [enabled : BOOLEAN, call_timestamps : {<<>>}]
    /\ fhCall = FhIdleCall
    /\ fhGranted = <<>>
    /\ clock = 0
    /\ IdlePattern /\ IdleEdge /\ IdleFlash /\ IdleCycle /\ IdleScan /\ IdleContinuous
    /\ IdlePipeline /\ IdleNews /\ IdleAux

\* time passes, between the calls or inside one
FhTick ==
    /\ clock < MaxClock
    /\ clock' = clock + 1
    /\ UNCHANGED <<fhClient, fhCall, fhGranted, paVars, esVars, frVars, cyVars, gsVars, rcVars, plVars, nsVars, auxVars>>

\* a caller enters _make_request
MakeRequest ==
    /\ fhCall.pc = "idle"
    /\ fhCall' = [pc |-> "check", retries |-> 0, slept |-> FALSE, result |-> "none"]
    /\ UNCHANGED <<fhClient, fhGranted, clock, paVars, esVars, frVars, cyVars, gsVars, rcVars, plVars, nsVars, auxVars>>

\* _rate_limit_check on a disabled client: _make_request returns None
RateLimitDisabled ==
    /\ fhCall.pc = "check"
    /\ ~fhClient.enabled
    /\ fhCall' = [fhCall EXCEPT !.pc = "idle", !.result = "None"]
    /\ UNCHANGED <<fhClient, fhGranted, clock, paVars, esVars, frVars, cyVars, gsVars, rcVars, plVars, nsVars, auxVars>>

\* _rate_limit_check with a full window: time.sleep(sleep_time), then the
\* recursive _rate_limit_check
RateLimitSleep ==
    /\ fhCall.pc = "check"
    /\ fhClient.enabled
    /\ MustSleep(fhClient.call_timestamps, clock)
    /\ \E recent \in {RecentTimestamps(fhClient.call_timestamps, clock)} :
         /\ clock + SleepTime(recent, clock) <= MaxClock
         /\ clock' = clock + SleepTime(recent, clock)
         /\ fhClient' = [fhClient EXCEPT !.call_timestamps = recent]
    /\ fhCall' = [fhCall EXCEPT !.slept = TRUE]
    /\ UNCHANGED <<fhGranted, paVars, esVars, frVars, cyVars, gsVars, rcVars, plVars, nsVars, auxVars>>

\* _rate_limit_check lets the request through: the timestamp is recorded
RateLimitGrant ==
    /\ fhCall.pc = "check"
    /\ fhClient.enabled
    /\ ~MustSleep(fhClient.call_timestamps, clock)
    /\ fhClient' = [fhClient EXCEPT
                      !.call_timestamps = Append(RecentTimestamps(@, clock), clock)]
    /\ fhGranted' = Append(fhGranted, clock)
    /\ fhCall' = [fhCall EXCEPT !.pc = "send"]
    /\ UNCHANGED <<clock, paVars, esVars, frVars, cyVars, gsVars, rcVars, plVars, nsVars, auxVars>>

\* session.get answers: 200 returns the JSON, a RequestException returns
\* None, 429 sleeps a minute and calls _make_request again
FhResponse ==
    /\ fhCall.pc = "send"
    /\ \E status \in {"ok", "error", "429"} :
         IF status = "429"
         THEN /\ clock + MinuteLength <= MaxClock
              /\ clock' = clock + MinuteLength
              /\ fhCall' = [fhCall EXCEPT !.pc = "check", !.retries = @ + 1]
         ELSE /\ fhCall' = [fhCall EXCEPT !.pc = "idle",
                                          !.result = IF status = "ok" THEN "json" ELSE "None"]
              /\ UNCHANGED clock
    /\ UNCHANGED <<fhClient, fhGranted, paVars, esVars, frVars, cyVars, gsVars, rcVars, plVars, nsVars, auxVars>>

NextFinnhub ==
    FhTick \/ MakeRequest \/ RateLimitDisabled \/ RateLimitSleep \/ RateLimitGrant \/ FhResponse

SpecFinnhub == InitFinnhub /\ [][NextFinnhub]_vars

-----------------------------------------------------------------------------
(* Properties of FinnhubClient, checked under SpecFinnhub                   *)

\* the requests let through in the window of one minute that ends at time t
GrantedInWindow(t) == {i \in DOMAIN fhGranted : t - fhGranted[i] < MinuteLength /\ fhGranted[i] <= t}

\* C14: in any trailing window of one minute at most calls_per_minute
\* requests, retried ones included, are let through; a caller that slept on
\* a full window finds room when it wakes.
C14_RateCeiling ==
    /\ \A t \in 0..MaxClock : Cardinality(GrantedInWindow(t)) <= calls_per_minute
    /\ (fhClient # None /\ fhCall.pc = "check" /\ fhCall.slept)
         => ~MustSleep(fhClient.call_timestamps, clock)

\* a call that found the window full slept, was let through exactly when
\* the oldest request left the window, was answered 429 and retried
C14_Witness ==
    /\ fhCall # None
    /\ fhCall.pc = "send" /\ fhCall.slept /\ fhCall.retries = 1
    /\ Len(fhGranted) = calls_per_minute + 2
    /\ fhGranted[calls_per_minute + 1] - fhGranted[1] = MinuteLength

\* C15: one _make_request call retries at most once after 429 answers.
C15_AtMostOneRetry == fhCall # None => fhCall.retries <= 1
-----------------------------------------------------------------------------
(* TradingBot.run_continuous (src/src/main.py).  The browser of the scraper *)
(* is "none" before the first analysis opens it, then "open", then "quit".  *)

MaxCycles == 3

\* what get_optimal_scan_interval may answer: closed market, pre-market,
\* market hours, after hours
ScanIntervals == {3600, 300, 600, 900}

\* the bot with nothing closed
CleanupNothing(bot) == bot

\* TradingBot.cleanup: flash_client.close() -> scraper.cleanup() -> driver.quit()
Cleanup(bot) == [bot EXCEPT !.driver = IF @ = "open" THEN "quit" ELSE @]

\* TradingBot.__init__ followed by the entry of run_continuous
InitContinuous ==
    /\ rcBot = [is_running |-> TRUE, scan_interval |-> 300, driver |-> "none"]
    /\ rcRun = [pc |-> "loop", cycles |-> 0, stop_signal |-> FALSE, cycles_at_stop |-> 0,
                swallowed |-> FALSE, closed |-> FALSE]
    /\ IdlePattern /\ IdleEdge /\ IdleFlash /\ IdleCycle /\ IdleScan /\ IdleFinnhub
    /\ IdlePipeline /\ IdleNews /\ IdleAux

\* "while self.is_running": the interval is refreshed and run_gap_scan entered
RcLoop ==
    /\ rcRun.pc = "loop"
    /\ rcBot.is_running
    /\ rcRun.cycles < MaxCycles
    /\ \E current_interval \in ScanIntervals :
         rcBot' = [rcBot EXCEPT !.scan_interval = current_interval]
    /\ rcRun' = [rcRun EXCEPT !.pc = "scan", !.cycles = @ + 1]
    /\ UNCHANGED <<paVars, esVars, frVars, cyVars, gsVars, fhVars, plVars, nsVars, auxVars>>

\* run_gap_scan: the scanner is paused or finds no gap, or gaps are found
RcScan ==
    /\ rcRun.pc = "scan"
    /\ \E gaps \in BOOLEAN : rcRun' = [rcRun EXCEPT !.pc = IF gaps THEN "analyze" ELSE "sleep"]
    /\ UNCHANGED <<rcBot, paVars, esVars, frVars, cyVars, gsVars, fhVars, plVars, nsVars, auxVars>>

\* run_gap_scan: the gaps are analysed; the scraper opens its browser when it
\* has none and setup_driver succeeds; alerts follow when Telegram is enabled
RcAnalyze ==
    /\ rcRun.pc = "analyze"
    /\ \E opened \in BOOLEAN :
         rcBot' = [rcBot EXCEPT !.driver = IF @ = "none" /\ opened THEN "open" ELSE @]
    /\ \E telegram \in BOOLEAN :
         rcRun' = [rcRun EXCEPT !.pc = IF telegram THEN "alerts" ELSE "sleep"]
    /\ UNCHANGED <<paVars, esVars, frVars, cyVars, gsVars, fhVars, plVars, nsVars, auxVars>>

\* asyncio.run(_send_enhanced_alerts(...)) ends
RcAlerts ==
    /\ rcRun.pc = "alerts"
    /\ rcRun' = [rcRun EXCEPT !.pc = "sleep"]
    /\ UNCHANGED <<rcBot, paVars, esVars, frVars, cyVars, gsVars, fhVars, plVars, nsVars, auxVars>>

\* time.sleep(self.scan_interval) ends
RcSleep ==
    /\ rcRun.pc = "sleep"
    /\ rcRun' = [rcRun EXCEPT !.pc = "loop"]
    /\ UNCHANGED <<rcBot, paVars, esVars, frVars, cyVars, gsVars, fhVars, plVars, nsVars, auxVars>>

\* KeyboardInterrupt during an iteration.  Raised inside one of the bare
\* "except:" blocks on the scan path (AlpacaClient.is_tradeable, the
\* scraper) it is swallowed there; otherwise no "except Exception" stops it
\* and it reaches the handler of run_continuous, which clears is_running
RcKeyboardInterrupt ==
    /\ rcRun.pc \in {"scan", "analyze", "alerts", "sleep"}
    /\ \E swallowed \in BOOLEAN :
         /\ swallowed => rcRun.pc \in {"scan", "analyze"}
         /\ IF swallowed
            THEN /\ rcRun' = [rcRun EXCEPT !.swallowed = TRUE]
                 /\ UNCHANGED rcBot
            ELSE /\ rcRun' = [rcRun EXCEPT !.pc = "finally", !.stop_signal = TRUE,
                                           !.cycles_at_stop = rcRun.cycles]
                 /\ rcBot' = [rcBot EXCEPT !.is_running = FALSE]
    /\ UNCHANGED <<paVars, esVars, frVars, cyVars, gsVars, fhVars, plVars, nsVars, auxVars>>

\* the finally clause: self.cleanup(), then run_continuous returns
RcFinally ==
    /\ rcRun.pc = "finally"
    /\ rcBot' = Cleanup(rcBot)
    /\ rcRun' = [rcRun EXCEPT !.pc = "returned", !.closed = TRUE]
    /\ UNCHANGED <<paVars, esVars, frVars, cyVars, gsVars, fhVars, plVars, nsVars, auxVars>>

NextContinuous ==
    RcLoop \/ RcScan \/ RcAnalyze \/ RcAlerts \/ RcSleep \/ RcKeyboardInterrupt \/ RcFinally

SpecContinuous == InitContinuous /\ [][NextContinuous]_vars

-----------------------------------------------------------------------------
(* Properties of run_continuous, checked under SpecContinuous               *)

-----------------------------------------------------------------------------
(* Worked examples of the classification, checked under SpecPattern         *)

\* C17: a locally classified setup with float_shares = 3,000,000 and
\* gap_percent = 12 is a "Float Squeeze", whatever its news, historical
\* statistics and volume.
C17_ThreeMillionFloatIsSqueeze ==
    (/\ paOut # NotCalled
     /\ paOut.analysis_source = "local"
     /\ Get(paIn.float_data, "float_shares", 0) = 3000000
     /\ paIn.gap_data.gap_percent = 1200)
        => paOut.pattern_type = "Float Squeeze"
-----------------------------------------------------------------------------
(* The analysis pipeline on one symbol, as src/test_ai_analysis.py runs it: *)
(* GapScanner.scan_symbol, FloatScreener.screen_symbol,                     *)
(* PatternAnalyzer.analyze_gap_setup, EdgeScorer.calculate_edge_score.      *)

\* the categories with the nano float under one million shares
CategorizeFloatMillion(float_shares) ==
    IF float_shares = 0 THEN "unknown"
    ELSE IF float_shares < 1000000 THEN "nano_float"
    ELSE IF float_shares < 10000000 THEN "micro_float"
    ELSE "low_float"

\* FinnhubClient._categorize_float
CategorizeFloat(float_shares) ==
    IF float_shares = 0 THEN "unknown"
    ELSE IF float_shares < 5000000 THEN "nano_float"
    ELSE IF float_shares < 10000000 THEN "micro_float"
    ELSE IF float_shares < 50000000 THEN "low_float"
    ELSE IF float_shares < 200000000 THEN "medium_float"
    ELSE "high_float"

\* FloatScreener.screen_symbol over FinnhubClient.calculate_float_metrics:
\* metrics is what get_company_metrics returns; of the result the pipeline
\* reads float_shares and float_category
ScreenSymbol(metrics) ==
    IF ~Truthy(metrics) THEN None
    ELSE IF Get(metrics, "shares_outstanding", 0) = 0 \/ Get(metrics, "float_shares", 0) = 0
    THEN None
    ELSE [float_shares |-> metrics.float_shares,
          float_category |-> CategorizeFloat(metrics.float_shares)]

\* KLTO: 2.45 -> 1.86 on 850,000 shares; and a small gap up
PlSnapshots ==
    {[kind |-> "ok", previous_close |-> 245, current_price |-> 186, volume |-> 850000],
     [kind |-> "ok", previous_close |-> 200, current_price |-> 220, volume |-> 150000],
     [kind |-> "no_previous_close"]}

PlMetrics ==
    {None,
     [shares_outstanding |-> 8000000, float_shares |-> 3200000],
     [shares_outstanding |-> 60000000, float_shares |-> 30000000]}

PlInputs ==
    [snap : PlSnapshots, metrics : PlMetrics, feed : PaFeeds, flash_answers : PaFlashAnswers,
     ai_enabled : BOOLEAN, ai_answer : PaAiAnswers]

InitPipeline ==
    /\ plIn \in PlInputs
    /\ plIn.ai_enabled \/ plIn.ai_answer = None
    /\ plRun = [pc |-> "scan"]
    /\ IdlePattern /\ IdleEdge /\ IdleFlash /\ IdleCycle /\ IdleScan /\ IdleFinnhub
    /\ IdleContinuous /\ IdleNews /\ IdleAux

\* gap_data = gap_scanner.scan_symbol(symbol); "if not gap_data: continue"
PlScan ==
    /\ plRun # None /\ plRun.pc = "scan"
    /\ \E gap_data \in {ScanSymbol("KLTO", plIn.snap)} :
         plRun' = IF gap_data = None THEN [pc |-> "done"]
                  ELSE [pc |-> "screen", gap_data |-> gap_data]
    /\ UNCHANGED <<plIn, paVars, esVars, frVars, cyVars, gsVars, fhVars, rcVars, nsVars, auxVars>>

\* float_data = float_screener.screen_symbol(symbol)
PlScreen ==
    /\ plRun # None /\ plRun.pc = "screen"
    /\ plRun' = [pc |-> "pattern", gap_data |-> plRun.gap_data,
                 float_data |-> ScreenSymbol(plIn.metrics)]
    /\ UNCHANGED <<plIn, paVars, esVars, frVars, cyVars, gsVars, fhVars, rcVars, nsVars, auxVars>>

\* pattern_analysis = pattern_analyzer.analyze_gap_setup(gap_data, float_data)
PlPattern ==
    /\ plRun # None /\ plRun.pc = "pattern"
    /\ \E pattern_analysis \in
           {AnalyzeGapSetupResult([gap_data |-> plRun.gap_data, float_data |-> plRun.float_data,
                                   feed |-> plIn.feed, flash_answers |-> plIn.flash_answers,
                                   ai_enabled |-> plIn.ai_enabled,
                                   ai_answer |-> plIn.ai_answer])} :
         plRun' = [pc |-> "edge", gap_data |-> plRun.gap_data, float_data |-> plRun.float_data,
                   pattern_analysis |-> pattern_analysis]
    /\ UNCHANGED <<plIn, paVars, esVars, frVars, cyVars, gsVars, fhVars, rcVars, nsVars, auxVars>>

\* edge_analysis = edge_scorer.calculate_edge_score(gap_data,
\*     pattern_analysis.get('flash_analysis', {}), ..., pattern_analysis)
PlEdge ==
    /\ plRun # None /\ plRun.pc = "edge"
    /\ \E pa \in {plRun.pattern_analysis} :
         \E edge_analysis \in
             {CalculateEdgeScore(plRun.gap_data, Get(pa, "flash_analysis", <<>>),
                                 Get(pa, "float_analysis", <<>>),
                                 Get(pa, "news_analysis", <<>>), pa)} :
            plRun' = [pc |-> "done", gap_data |-> plRun.gap_data,
                      float_data |-> plRun.float_data, pattern_analysis |-> pa,
                      edge_analysis |-> edge_analysis]
    /\ UNCHANGED <<plIn, paVars, esVars, frVars, cyVars, gsVars, fhVars, rcVars, nsVars, auxVars>>

NextPipeline == PlScan \/ PlScreen \/ PlPattern \/ PlEdge

SpecPipeline == InitPipeline /\ [][NextPipeline]_vars
-----------------------------------------------------------------------------
(* The KLTO example, checked under SpecPipeline                             *)

\* previous_close 2.45, current_price 1.86, volume 850000, float 3,200,000
\* and the history {45 gaps, 72 % continuation, 35 % fill, average gap 18.5,
\* volume factor 2.8} from a historical source that answers its three
\* requests, analysed without the AI client
KltoScenario ==
    /\ plIn # None
    /\ plIn.snap = [kind |-> "ok", previous_close |-> 245, current_price |-> 186,
                    volume |-> 850000]
    /\ Get(plIn.metrics, "float_shares", 0) = 3200000
    /\ plIn.flash_answers.gaps = RawGapsStrong
    /\ plIn.flash_answers.float # None /\ plIn.flash_answers.performance # None
    /\ ~plIn.ai_enabled

KltoGap ==
    (plRun.pc # "scan")
        => /\ plRun.pc # "done" \/ "edge_analysis" \in DOMAIN plRun
           /\ plRun.gap_data.gap_direction = "DOWN"
           /\ plRun.gap_data.gap_percent = -2408

KltoFloat == "float_data" \in DOMAIN plRun => plRun.float_data.float_category = "nano_float"

KltoPattern ==
    "pattern_analysis" \in DOMAIN plRun => plRun.pattern_analysis.pattern_type = "Float Squeeze"

KltoHistorical ==
    "edge_analysis" \in DOMAIN plRun
        => plRun.edge_analysis.component_scores.flash_research >= 700

KltoClass ==
    "edge_analysis" \in DOMAIN plRun
        => plRun.edge_analysis.edge_classification \in {"Strong Edge", "Exceptional Edge"}

-----------------------------------------------------------------------------
(* One scan_symbol_news call: the inputs it is checked on.  An item is the  *)
(* number of catalyst keywords (of 29) and of negative keywords (of 7)      *)
(* found in its headline and summary.                                       *)

MaxNewsItems == 2

NsItems == {NewsItem(1, p, n) : p \in {0, 1, 2, 11}, n \in {0, 1}}

\* the i-th item of a list is named i
NsItemLists ==
    UNION {{[i \in 1..k |-> NewsItem(i, f[i].pos, f[i].neg)] : f \in [1..k -> NsItems]} :
              k \in 0..MaxNewsItems}
    \cup {[i \in 1..6 |-> NewsItem(i, 2, 0)]}

NsFeeds ==
    {[status |-> "raise"], [status |-> "http_error"]}
    \cup {[status |-> "ok", items |-> items] : items \in NsItemLists}

InitNews ==
    /\ nsIn \in NsFeeds
    /\ nsOut = NotCalled
    /\ IdlePattern /\ IdleEdge /\ IdleFlash /\ IdleCycle /\ IdleScan /\ IdleFinnhub
    /\ IdleContinuous /\ IdlePipeline /\ IdleAux

\* NewsScanner.scan_symbol_news on the input
ScanSymbolNewsCall ==
    /\ nsIn # None
    /\ nsOut = NotCalled
    /\ nsOut' = ScanSymbolNews(nsIn)
    /\ UNCHANGED <<nsIn, paVars, esVars, frVars, cyVars, gsVars, fhVars, rcVars, plVars, auxVars>>

NextNews == ScanSymbolNewsCall

SpecNews == InitNews /\ [][NextNews]_vars

-----------------------------------------------------------------------------
(* Properties of NewsScanner, checked under SpecNews                        *)

\* C20: the catalyst_score scan_symbol_news returns lies in [0, 100].
C20_CatalystScoreBounded ==
    (nsOut # NotCalled /\ nsOut # None)
        => nsOut.catalyst_score >= 0 /\ nsOut.catalyst_score <= 100
-----------------------------------------------------------------------------
(* FinnhubClient.calculate_float_metrics                                    *)

\* x / y of Python: ZeroDivisionError when y is 0; the quotient as a
\* percentage with two decimals, round(x / y * 100, 2), in hundredths
PercentOf(x, y) ==
    IF y = 0 THEN Raise
    ELSE LET q == (x * 100) \div y
             r == (x * 100) % y
             q2 == (r * 100) \div y
             r2 == (r * 100) % y
         IN [hundredths |-> q * 100 + q2 + (IF 2 * r2 >= y THEN 1 ELSE 0)]

\* FinnhubClient._calculate_squeeze_potential; short_interest is the ratio
\* shares_short / float_shares, 0 when the code sets it to 0
CalculateSqueezePotential(shares_short, float_shares) ==
    IF shares_short = 0 THEN "unknown"
    ELSE IF shares_short * 5 > 2 * float_shares THEN "extreme"
    ELSE IF shares_short * 4 > float_shares THEN "high"
    ELSE IF shares_short * 20 > 3 * float_shares THEN "moderate"
    ELSE IF shares_short * 20 > float_shares THEN "low"
    ELSE "minimal"

\* a number the metrics may lack: metrics.get(k), where a missing number
\* (None) is falsy like 0
Number(metrics, k) == Get(metrics, k, 0)

\* FinnhubClient.calculate_float_metrics; metrics is what
\* get_company_metrics returns
CalculateFloatMetrics(metrics) ==
    IF ~Truthy(metrics) THEN None
    ELSE LET shares_out == Number(metrics, "shares_outstanding")
             float_shares == Number(metrics, "float_shares")
             shares_short == Number(metrics, "shares_short")
         IN IF shares_out = 0 \/ float_shares = 0 THEN None
            ELSE LET insider_ownership ==
                         IF shares_out > 0
                         THEN PercentOf(IF shares_out > float_shares
                                        THEN shares_out - float_shares ELSE 0, shares_out)
                         ELSE [hundredths |-> 0]
                     float_percentage ==
                         IF shares_out > 0 THEN PercentOf(float_shares, shares_out)
                         ELSE [hundredths |-> 0]
                     short_interest ==
                         IF shares_short # 0 /\ float_shares > 0
                         THEN PercentOf(shares_short, float_shares)
                         ELSE [hundredths |-> 0]
                 IN IF Raise \in {insider_ownership, float_percentage, short_interest}
                    THEN Raise
                    ELSE [shares_outstanding |-> shares_out,
                          float_shares |-> float_shares,
                          insider_ownership_pct |-> insider_ownership.hundredths,
                          float_percentage |-> float_percentage.hundredths,
                          short_interest_pct |->
                              IF short_interest.hundredths # 0
                              THEN short_interest.hundredths ELSE None,
                          float_category |-> CategorizeFloat(float_shares),
                          squeeze_potential |->
                              CalculateSqueezePotential(
                                  IF shares_short # 0 /\ float_shares > 0
                                  THEN shares_short ELSE 0, float_shares),
                          is_microfloat |-> float_shares < 10000000,
                          is_low_float |-> float_shares < 50000000]

\* what get_company_metrics may answer: nothing, or metrics whose share
\* counts are missing (the key is absent), zero or positive
FmKeys == {"shares_outstanding", "float_shares", "shares_short"}

FmValues(k) ==
    IF k = "shares_outstanding" THEN {0, 8000000, 20000000}
    ELSE IF k = "float_shares" THEN {0, 3200000, 7000000, 12000000}
    ELSE {0, 300000, 1000000, 2000000, 4000000}

FmMetrics ==
    {None}
    \cup UNION {{m \in [D -> UNION {FmValues(k) : k \in FmKeys}] :
                    \A k \in D : m[k] \in FmValues(k)} : D \in SUBSET FmKeys \ {{}}}

InitFloat ==
    /\ fmIn \in [metrics : FmMetrics]
    /\ fmOut = NotCalled
    /\ IdlePattern /\ IdleEdge /\ IdleFlash /\ IdleCycle /\ IdleScan /\ IdleFinnhub
    /\ IdleContinuous /\ IdlePipeline /\ IdleNews /\ IdleScoring /\ IdleHours /\ IdleRequest

\* one calculate_float_metrics call on the input
CalculateFloatMetricsCall ==
    /\ fmIn # None
    /\ fmOut = NotCalled
    /\ fmOut' = CalculateFloatMetrics(fmIn.metrics)
    /\ UNCHANGED <<fmIn, paVars, esVars, frVars, cyVars, gsVars, fhVars, rcVars, plVars, nsVars, osVars, mhVars, rqVars>>

NextFloat == CalculateFloatMetricsCall

SpecFloat == InitFloat /\ [][NextFloat]_vars

\* the call was made on metrics whose shares_outstanding or float_shares is
\* zero or missing
ZeroOrMissingShares ==
    /\ fmOut # NotCalled
    /\ Truthy(fmIn.metrics)
    /\ \/ Number(fmIn.metrics, "shares_outstanding") = 0
       \/ Number(fmIn.metrics, "float_shares") = 0

\* calculate_float_metrics never raises (no division by zero)
FloatMetricsNeverRaises == fmOut # Raise

\* C21: when shares_outstanding or float_shares is zero or missing,
\* calculate_float_metrics does not fail and returns a profile whose
\* float_category is "unknown" and whose squeeze_potential is "unknown".
C21_ZeroSharesProfiledUnknown ==
    ZeroOrMissingShares
        => /\ fmOut # Raise
           /\ fmOut # None
           /\ fmOut.float_category = "unknown"
           /\ fmOut.squeeze_potential = "unknown"
-----------------------------------------------------------------------------
(* The gap sign, checked under SpecScan                                     *)

Sign(x) == IF x > 0 THEN 1 ELSE IF x < 0 THEN -1 ELSE 0

\* scan_symbol returned a gap event
GapEmitted == gsOut # NotCalled /\ gsOut # None

\* C22: for every emitted gap event with previous_close > 0 the sign of the
\* stored gap_percent is the sign of current_price - previous_close, and
\* gap_direction is "UP" exactly when current_price > previous_close and
\* "DOWN" exactly when current_price < previous_close.
C22_GapSignInvariant ==
    (GapEmitted /\ gsOut.previous_close > 0)
        => /\ Sign(gsOut.gap_percent) = Sign(gsOut.current_price - gsOut.previous_close)
           /\ gsOut.gap_direction = "UP" <=> gsOut.current_price > gsOut.previous_close
           /\ gsOut.gap_direction = "DOWN" <=> gsOut.current_price < gsOut.previous_close

\* a gap down on a positive close was emitted: 2.45 -> 1.86
C22_Witness ==
    /\ GapEmitted
    /\ gsOut.previous_close = 245 /\ gsOut.current_price = 186
    /\ gsOut.gap_direction = "DOWN" /\ gsOut.gap_percent = -2408
-----------------------------------------------------------------------------
(* key_headlines, checked under SpecNews                                    *)

\* scan_symbol_news answered from a feed of news items
NewsScored == nsOut # NotCalled /\ nsOut # None /\ nsIn.status = "ok"

\* the headlines, cut to 100 characters, of the first 3 items among the 5
\* most recent that match a catalyst keyword, in feed order
FirstMatchingHeadlines(items) ==
    LET recent == SubSeq(items, 1, Min(5, Len(items)))
        matching == SelectSeq(recent, LAMBDA it : it.pos > 0)
        first == SubSeq(matching, 1, Min(3, Len(matching)))
    IN [i \in 1..Len(first) |-> [id |-> first[i].id, len |-> Min(first[i].len, 100)]]

\* C23: key_headlines holds at most 3 entries of at most 100 characters,
\* the headlines of the first 3 distinct news items (in feed order, among
\* the 5 most recent) that match a catalyst keyword; no item contributes
\* more than one entry.
C23_KeyHeadlinesOfDistinctItems ==
    NewsScored
        => /\ Len(nsOut.key_headlines) <= 3
           /\ \A i \in DOMAIN nsOut.key_headlines : nsOut.key_headlines[i].len <= 100
           /\ \A i, j \in DOMAIN nsOut.key_headlines :
                  nsOut.key_headlines[i].id = nsOut.key_headlines[j].id => i = j
           /\ nsOut.key_headlines = FirstMatchingHeadlines(nsIn.items)

\* the part that holds: at most 3 entries, each of at most 100 characters
KeyHeadlinesCapped ==
    NewsScored
        => /\ Len(nsOut.key_headlines) <= 3
           /\ \A i \in DOMAIN nsOut.key_headlines : nsOut.key_headlines[i].len <= 100
-----------------------------------------------------------------------------
(* One TradingBot._calculate_our_scoring call                               *)

\* gap_data: the gap in hundredths of a percent, the volume, and the float
\* when the dict carries one
OsGapData ==
    [gap_percent : {0, 300, 500, 1000, 1500, 2000, -2408},
     volume : {0, 100000, 500000, 1000000}]
    \cup [gap_percent : {500, 2000, -2408}, volume : {100000, 1000000},
          float_shares : {0, 3000000, 8000000, 15000000, 30000000}]

\* flash_data: absent, without historical data, or with a gap_edge_score
OsFlashData ==
    {None, [has_flash_data |-> FALSE], [has_flash_data |-> TRUE]}
    \cup [has_flash_data : {TRUE}, gap_edge_score : {0, 50, 80, 83, 100}]

InitScoring ==
    /\ osIn \in [gap_data : OsGapData, flash_data : OsFlashData]
    /\ osOut = NotCalled
    /\ IdlePattern /\ IdleEdge /\ IdleFlash /\ IdleCycle /\ IdleScan /\ IdleFinnhub
    /\ IdleContinuous /\ IdlePipeline /\ IdleNews /\ IdleFloat /\ IdleHours /\ IdleRequest

\* _calculate_our_scoring on the input
CalculateOurScoringCall ==
    /\ osIn # None
    /\ osOut = NotCalled
    /\ osOut' = CalculateOurScoring(osIn.gap_data, osIn.flash_data)
    /\ UNCHANGED <<osIn, paVars, esVars, frVars, cyVars, gsVars, fhVars, rcVars, plVars, nsVars, fmVars, mhVars, rqVars>>

NextScoring == CalculateOurScoringCall

SpecScoring == InitScoring /\ [][NextScoring]_vars

\* the five parts stay within their maxima of 25, 20, 15, 40 and 10 points
PartsWithinMaxima ==
    osOut # NotCalled
        => /\ osOut.gap_score \in 0..25
           /\ osOut.volume_score \in 0..20
           /\ osOut.float_score \in 0..15
           /\ osOut.flash_score \in 0..40
           /\ osOut.ai_score \in 0..10

\* C24: the total_score of _calculate_our_scoring, the "Score: X/100" of the
\* alert, lies in [0, 100] for every gap, volume, float and historical edge
\* score in [0, 100], and its five parts never exceed 25, 20, 15, 40 and 10.
C24_RankingScoreWithin100 ==
    osOut # NotCalled
        => /\ osOut.total_score >= 0 /\ osOut.total_score <= 100
           /\ PartsWithinMaxima
-----------------------------------------------------------------------------
(* MarketHoursManager (src/src/utils/market_hours.py) and the loop of       *)
(* TradingBot.run_continuous under it.  An instant is a number of seconds   *)
(* since a Monday 00:00 Eastern; weekday 0 is Monday, 5 Saturday, 6 Sunday. *)

At(day, hour, minute) == day * 86400 + hour * 3600 + minute * 60

Weekday(t) == (t \div 86400) % 7
TimeOfDay(t) == t % 86400
Midnight(t) == t - TimeOfDay(t)

\* the schedule __init__ loads when the environment sets none
premarket_start == At(0, 4, 0)
premarket_end == At(0, 9, 30)
market_open == At(0, 9, 30)
market_close == At(0, 16, 0)
afterhours_end == At(0, 20, 0)

\* SCANNER_INTERVAL
base_interval == 300

\* is_trading_session at instant t
IsTradingSession(cfg, t) ==
    LET current_time == TimeOfDay(t)
    IN IF cfg.weekend_pause /\ Weekday(t) >= 5
       THEN [is_active |-> FALSE, session_type |-> "weekend"]
       ELSE IF cfg.enable_premarket /\ premarket_start <= current_time
                                    /\ current_time < premarket_end
       THEN [is_active |-> TRUE, session_type |-> "premarket"]
       ELSE IF market_open <= current_time /\ current_time <= market_close
       THEN [is_active |-> TRUE, session_type |-> "market_hours"]
       ELSE IF cfg.enable_afterhours /\ market_close < current_time
                                     /\ current_time <= afterhours_end
       THEN [is_active |-> TRUE, session_type |-> "afterhours"]
       ELSE [is_active |-> FALSE, session_type |-> "closed"]

\* get_next_session_start at instant t
GetNextSessionStart(t) ==
    LET current_time == TimeOfDay(t)
    IN IF Weekday(t) >= 5
       THEN LET days_until_monday == IF Weekday(t) = 6 THEN 1 ELSE 7 - Weekday(t)
            IN Midnight(t) + premarket_start + days_until_monday * 86400
       ELSE IF current_time < premarket_start THEN Midnight(t) + premarket_start
       ELSE IF current_time < market_open THEN Midnight(t) + market_open
       ELSE IF current_time < market_close THEN Midnight(t) + market_close
       ELSE Midnight(t) + 86400 + premarket_start

\* an interval that ignores the session
GetOptimalScanIntervalBase(cfg, t) == base_interval

\* get_optimal_scan_interval at instant t
GetOptimalScanInterval(cfg, t) ==
    LET s == IsTradingSession(cfg, t)
    IN IF ~s.is_active THEN 3600
       ELSE IF s.session_type = "premarket" THEN base_interval
       ELSE IF s.session_type = "market_hours" THEN base_interval * 2
       ELSE IF s.session_type = "afterhours" THEN base_interval * 3
       ELSE base_interval

\* the loop makes at most MaxIterations iterations
MaxIterations == 3

\* the time the code of one step takes, in seconds
CodeTimes == {0, 60}

\* the instants the scanner is started at
StartInstants ==
    {At(0, 3, 30), At(3, 3, 58), At(3, 6, 0), At(2, 9, 28), At(2, 15, 58), At(2, 20, 30),
     At(4, 15, 30), At(4, 17, 0), At(5, 10, 0), At(6, 23, 30)}

MhConfigs ==
    {[enable_premarket |-> TRUE, enable_afterhours |-> FALSE, weekend_pause |-> TRUE],
     [enable_premarket |-> FALSE, enable_afterhours |-> TRUE, weekend_pause |-> TRUE],
     [enable_premarket |-> TRUE, enable_afterhours |-> TRUE, weekend_pause |-> FALSE]}

InitHours ==
    /\ mhCfg \in MhConfigs
    /\ mhNow \in StartInstants
    /\ mhRun = [pc |-> "loop", scan_interval |-> base_interval, iterations |-> <<>>]
    /\ IdlePattern /\ IdleEdge /\ IdleFlash /\ IdleCycle /\ IdleScan /\ IdleFinnhub
    /\ IdleContinuous /\ IdlePipeline /\ IdleNews /\ IdleFloat /\ IdleScoring /\ IdleRequest

\* "while self.is_running": current_interval = get_optimal_scan_interval();
\* self.scan_interval = current_interval when it changed
MhLoop ==
    /\ mhRun # None /\ mhRun.pc = "loop"
    /\ Len(mhRun.iterations) < MaxIterations
    /\ mhRun' = [pc |-> "scan",
                 scan_interval |-> GetOptimalScanInterval(mhCfg, mhNow),
                 iterations |-> mhRun.iterations,
                 at_interval |-> [t |-> mhNow, session |-> IsTradingSession(mhCfg, mhNow)]]
    /\ \E d \in CodeTimes : mhNow' = mhNow + d
    /\ UNCHANGED <<mhCfg, paVars, esVars, frVars, cyVars, gsVars, fhVars, rcVars, plVars, nsVars, fmVars, osVars, rqVars>>

\* run_gap_scan when should_scan_now() is false: it logs the session of
\* get_session_info() and its next_session, and returns
MhScanPaused ==
    /\ mhRun # None /\ mhRun.pc = "scan"
    /\ ~IsTradingSession(mhCfg, mhNow).is_active
    /\ mhRun' = [mhRun EXCEPT !.pc = "sleep"]
                  @@ [at_scan |-> [t |-> mhNow, session |-> IsTradingSession(mhCfg, mhNow)],
                      next_session |-> GetNextSessionStart(mhNow),
                      symbols_scanned |-> FALSE, alerts_sent |-> FALSE]
    /\ UNCHANGED <<mhCfg, mhNow, paVars, esVars, frVars, cyVars, gsVars, fhVars, rcVars, plVars, nsVars, fmVars, osVars, rqVars>>

\* run_gap_scan when should_scan_now() is true: the watchlist is scanned and
\* the gaps found, if any, are alerted
MhScanActive ==
    /\ mhRun # None /\ mhRun.pc = "scan"
    /\ IsTradingSession(mhCfg, mhNow).is_active
    /\ \E alerts_sent \in BOOLEAN :
         mhRun' = [mhRun EXCEPT !.pc = "sleep"]
                    @@ [at_scan |-> [t |-> mhNow, session |-> IsTradingSession(mhCfg, mhNow)],
                        next_session |-> None,
                        symbols_scanned |-> TRUE, alerts_sent |-> alerts_sent]
    /\ \E d \in CodeTimes : mhNow' = mhNow + d
    /\ UNCHANGED <<mhCfg, paVars, esVars, frVars, cyVars, gsVars, fhVars, rcVars, plVars, nsVars, fmVars, osVars, rqVars>>

\* time.sleep(self.scan_interval)
MhSleep ==
    /\ mhRun # None /\ mhRun.pc = "sleep"
    /\ mhRun' = [pc |-> "loop", scan_interval |-> mhRun.scan_interval,
                 iterations |-> Append(mhRun.iterations,
                                       [at_interval |-> mhRun.at_interval,
                                        at_scan |-> mhRun.at_scan,
                                        next_session |-> mhRun.next_session,
                                        symbols_scanned |-> mhRun.symbols_scanned,
                                        alerts_sent |-> mhRun.alerts_sent,
                                        waited |-> mhRun.scan_interval])]
    /\ mhNow' = mhNow + mhRun.scan_interval
    /\ UNCHANGED <<mhCfg, paVars, esVars, frVars, cyVars, gsVars, fhVars, rcVars, plVars, nsVars, fmVars, osVars, rqVars>>

NextHours == MhLoop \/ MhScanPaused \/ MhScanActive \/ MhSleep

SpecHours == InitHours /\ [][NextHours]_vars

-----------------------------------------------------------------------------
(* Properties of the schedule, checked under SpecHours                      *)

Iterations == IF mhRun = None THEN <<>> ELSE mhRun.iterations

\* no session is active in the iteration: is_trading_session says so both
\* when the interval is chosen and when run_gap_scan asks
NoSessionIn(it) == ~it.at_interval.session.is_active /\ ~it.at_scan.session.is_active

PremarketIn(it) ==
    /\ it.at_interval.session.session_type = "premarket"
    /\ it.at_scan.session.session_type = "premarket"

\* C25: in an iteration in which no trading session is active run_gap_scan
\* scans no symbol and sends no alert and the loop waits 3600 seconds; in an
\* iteration during premarket the wait is the base scan interval.
C25_ClosedIterationsWaitAnHour ==
    \A i \in DOMAIN Iterations :
        /\ NoSessionIn(Iterations[i])
               => /\ ~Iterations[i].symbols_scanned
                  /\ ~Iterations[i].alerts_sent
                  /\ Iterations[i].waited = 3600
        /\ PremarketIn(Iterations[i]) => Iterations[i].waited = base_interval

\* a run with an iteration outside the sessions that scanned nothing and
\* waited an hour, and then an iteration in premarket that scanned and
\* waited the base interval
C25_Witness ==
    \E i, j \in DOMAIN Iterations :
        /\ i < j
        /\ NoSessionIn(Iterations[i])
        /\ ~Iterations[i].symbols_scanned
        /\ Iterations[i].waited = 3600
        /\ PremarketIn(Iterations[j])
        /\ Iterations[j].symbols_scanned
        /\ Iterations[j].waited = 300

\* a Saturday iteration under weekend pause that scanned nothing and waited
\* an hour
WeekendPaused ==
    \E i \in DOMAIN Iterations :
        /\ Iterations[i].at_scan.session.session_type = "weekend"
        /\ Weekday(Iterations[i].at_scan.t) = 5
        /\ ~Iterations[i].symbols_scanned
        /\ Iterations[i].waited = 3600

\* C29: whenever no trading session is active, get_next_session_start
\* returns an instant strictly later than the current time at which
\* is_trading_session reports an active session; with weekend pause on it
\* never returns a Saturday or Sunday instant.
C29_NextSessionIsASession ==
    \A i \in DOMAIN Iterations :
        ~Iterations[i].at_scan.session.is_active
            => /\ Iterations[i].next_session > Iterations[i].at_scan.t
               /\ IsTradingSession(mhCfg, Iterations[i].next_session).is_active
               /\ mhCfg.weekend_pause => Weekday(Iterations[i].next_session) < 5

\* the part that holds: the instant returned is strictly later
NextSessionIsLater ==
    \A i \in DOMAIN Iterations :
        ~Iterations[i].at_scan.session.is_active
            => Iterations[i].next_session > Iterations[i].at_scan.t

\* the start of the session active at instant t, when one is
SessionStart(cfg, t) ==
    LET session_type == IsTradingSession(cfg, t).session_type
    IN Midnight(t) + (IF session_type = "premarket" THEN premarket_start
                      ELSE IF session_type = "market_hours" THEN market_open
                      ELSE market_close)

\* iteration i makes the first scan of a session that began while the
\* scanner was running
FirstScanOfSession(i) ==
    LET start == SessionStart(mhCfg, Iterations[i].at_scan.t)
    IN /\ Iterations[i].symbols_scanned
       /\ Iterations[1].at_interval.t < start
       /\ \A j \in 1..(i - 1) :
              ~(Iterations[j].symbols_scanned /\ Iterations[j].at_scan.t >= start)

\* C30: when a trading session begins while the continuous scanner is
\* running, the first scan of that session happens within one base scan
\* interval of the session start.
C30_BoundedResume ==
    \A i \in DOMAIN Iterations :
        FirstScanOfSession(i)
            => Iterations[i].at_scan.t
                   <= SessionStart(mhCfg, Iterations[i].at_scan.t) + base_interval
-----------------------------------------------------------------------------
(* FlashResearchClient._make_request in API mode, with its rate limit       *)

\* the resolution of the clock: ticks in a second
TicksPerSecond == 2

\* self.min_request_interval = 1.0, in ticks
min_request_interval == 1 * TicksPerSecond

\* the calls made and the time observed
MaxRequests == 2
MaxNow == 8

RqIdle(made) == [pc |-> "idle", made |-> made]

\* time.time() is far from the initial last_request_time of 0
InitRequest ==
    /\ rqClient = [authenticated |-> FALSE, last_request_time |-> 0]
    /\ rqCall = RqIdle(0)
    /\ rqGets = <<>>
    /\ rqNow = min_request_interval
    /\ IdlePattern /\ IdleEdge /\ IdleFlash /\ IdleCycle /\ IdleScan /\ IdleFinnhub
    /\ IdleContinuous /\ IdlePipeline /\ IdleNews /\ IdleFloat /\ IdleScoring /\ IdleHours

\* time passes, between calls and while a request is answered
RqTick ==
    /\ rqClient # None
    /\ rqNow < MaxNow
    /\ rqNow' = rqNow + 1
    /\ UNCHANGED <<rqClient, rqCall, rqGets, paVars, esVars, frVars, cyVars, gsVars, fhVars, rcVars, plVars, nsVars, fmVars, osVars, mhVars>>

\* _make_request is called
RqMakeRequest ==
    /\ rqCall # None /\ rqCall.pc = "idle"
    /\ rqCall.made < MaxRequests
    /\ rqCall' = [pc |-> IF rqClient.authenticated THEN "rate_limit" ELSE "authenticate",
                  made |-> rqCall.made + 1]
    /\ UNCHANGED <<rqClient, rqGets, rqNow, paVars, esVars, frVars, cyVars, gsVars, fhVars, rcVars, plVars, nsVars, fmVars, osVars, mhVars>>

\* "if not self.authenticated: if not self.authenticate(): return None"
RqAuthenticate ==
    /\ rqCall # None /\ rqCall.pc = "authenticate"
    /\ \E ok \in BOOLEAN :
         /\ rqClient' = [rqClient EXCEPT !.authenticated = ok]
         /\ rqCall' = IF ok THEN [rqCall EXCEPT !.pc = "rate_limit"] ELSE RqIdle(rqCall.made)
    /\ UNCHANGED <<rqGets, rqNow, paVars, esVars, frVars, cyVars, gsVars, fhVars, rcVars, plVars, nsVars, fmVars, osVars, mhVars>>

\* _rate_limit: sleeps min_request_interval - time_since_last when the last
\* request is closer than the interval, then last_request_time = time.time();
\* self.session.get(url, params=params) is issued right after
RqRateLimit ==
    /\ rqCall # None /\ rqCall.pc = "rate_limit"
    /\ LET time_since_last == rqNow - rqClient.last_request_time
           sleep_time == IF time_since_last < min_request_interval
                         THEN min_request_interval - time_since_last ELSE 0
       IN /\ rqNow' = rqNow + sleep_time
          /\ rqClient' = [rqClient EXCEPT !.last_request_time = rqNow + sleep_time]
          /\ rqGets' = Append(rqGets, [t |-> rqNow + sleep_time, retry |-> FALSE])
    /\ rqCall' = [rqCall EXCEPT !.pc = "get"]
    /\ UNCHANGED <<paVars, esVars, frVars, cyVars, gsVars, fhVars, rcVars, plVars, nsVars, fmVars, osVars, mhVars>>

\* response = self.session.get(url, params=params) is answered 200, 401 or
\* another status, or raises
RqResponse ==
    /\ rqCall # None /\ rqCall.pc = "get"
    /\ \E status \in {"200", "401", "500", "raise"} :
         rqCall' = IF status = "401" THEN [rqCall EXCEPT !.pc = "reauthenticate"]
                   ELSE RqIdle(rqCall.made)
    /\ UNCHANGED <<rqClient, rqGets, rqNow, paVars, esVars, frVars, cyVars, gsVars, fhVars, rcVars, plVars, nsVars, fmVars, osVars, mhVars>>

\* on 401: "if self.authenticate():"; a failed login leaves authenticated
\* as it was when the login answered, and changes it to True when it succeeds
RqReauthenticate ==
    /\ rqCall # None /\ rqCall.pc = "reauthenticate"
    /\ \E ok \in BOOLEAN :
         rqCall' = IF ok THEN [rqCall EXCEPT !.pc = "retry"] ELSE RqIdle(rqCall.made)
    /\ UNCHANGED <<rqClient, rqGets, rqNow, paVars, esVars, frVars, cyVars, gsVars, fhVars, rcVars, plVars, nsVars, fmVars, osVars, mhVars>>

\* the retry: response = self.session.get(url, params=params) again
RqRetry ==
    /\ rqCall # None /\ rqCall.pc = "retry"
    /\ rqGets' = Append(rqGets, [t |-> rqNow, retry |-> TRUE])
    /\ rqCall' = RqIdle(rqCall.made)
    /\ UNCHANGED <<rqClient, rqNow, paVars, esVars, frVars, cyVars, gsVars, fhVars, rcVars, plVars, nsVars, fmVars, osVars, mhVars>>

NextRequest ==
    RqTick \/ RqMakeRequest \/ RqAuthenticate \/ RqRateLimit \/ RqResponse \/ RqReauthenticate
    \/ RqRetry

SpecRequest == InitRequest /\ [][NextRequest]_vars

\* the first GETs of the calls, in order
FirstGets == SelectSeq(rqGets, LAMBDA g : ~g.retry)

\* the part that holds: the first GETs of two consecutive calls are at least
\* min_request_interval apart
FirstGetsSpacedApart ==
    \A i \in 1..(Len(FirstGets) - 1) :
        FirstGets[i + 1].t - FirstGets[i].t >= min_request_interval

\* C26: any two consecutive HTTP requests issued by _make_request, across
\* calls and within a call that re-authenticates and retries after a 401,
\* are at least min_request_interval (1 second) apart.
C26_RequestsSpacedApart ==
    \A i \in 1..(Len(rqGets) - 1) : rqGets[i + 1].t - rqGets[i].t >= min_request_interval
-----------------------------------------------------------------------------
(* Recommendations and classes of the EdgeScorer, checked under SpecEdge    *)

\* calculate_edge_score returned from its try block
EdgeScored == esOut # NotCalled /\ esOut.edge_classification # "Analysis Error"

Recommends(text) ==
    \E i \in DOMAIN esOut.trading_recommendations : esOut.trading_recommendations[i] = text

TopTierEdge == esOut.edge_classification \in {"Strong Edge", "Exceptional Edge"}

\* C27: whenever the trading_recommendations contain "High probability
\* setup - consider larger position size", the edge_classification is
\* "Strong Edge" or "Exceptional Edge".
C27_LargerPositionOnlyOnStrongEdge ==
    (esOut # NotCalled
     /\ Recommends("High probability setup - consider larger position size"))
        => TopTierEdge

\* C28: without historical data (has_flash_data false) the confidence_level
\* is never "Very High" and the edge_classification is never "Strong Edge"
\* or "Exceptional Edge", whatever the gap, float, AI and news inputs.
C28_NoTopTierWithoutHistory ==
    (esOut # NotCalled /\ ~Get(esIn.flash_analysis, "has_flash_data", FALSE))
        => /\ esOut.confidence_level # "Very High"
           /\ ~TopTierEdge

\* without historical data, on the strongest gap, float, AI and news inputs:
\* confidence "High" and the class "Good Edge"
C28_Witness ==
    /\ EdgeScored
    /\ ~Get(esIn.flash_analysis, "has_flash_data", FALSE)
    /\ esOut.component_scores.flash_research = 500
    /\ esOut.component_scores.gap_characteristics >= 900
    /\ esOut.component_scores.float_dynamics >= 900
    /\ esOut.component_scores.ai_pattern = 1000
    /\ esOut.component_scores.news_catalyst >= 900
    /\ esOut.confidence_level = "High"
    /\ esOut.edge_classification = "Good Edge"
====
